---- MODULE Spec2Model ----
(***************************************************************************)
(* Model of the image helper layer of @nextnode/functions-client.          *)
(*                                                                         *)
(* Strings are sequences of UTF-16 code units (naturals), which is what    *)
(* the JavaScript string operations used by the code (RegExp without the   *)
(* u flag, String.prototype.replace, substring, length) work on.           *)
(*                                                                         *)
(* Code units used below:                                                  *)
(*   0 NUL   32 ' '   44 ','   45 '-'   46 '.'   47 '/'   48 '0'  57 '9'   *)
(*   58 ':'  64 '@'   65 'A'   70 'F'   71 'G'   90 'Z'   91 '['  92 '\'   *)
(*   95 '_'  96 '`'   97 'a'  102 'f'  103 'g'  106 'j'  112 'p' 122 'z'   *)
(*  123 '{' 233 e-acute   55357/56832 the surrogate pair of U+1F600        *)
(***************************************************************************)
EXTENDS Integers, Sequences, FiniteSets, TLC

VARIABLES
    \* arguments and completion of one call of an exported function
    filename, hash, pc, op, ret, err,
    \* the completed generateSecureCacheKey calls of a storage layer
    calls,
    \* a CDN adapter and the arguments of one call of its methods
    provider, source, width, height,
    \* optimizeBatch: its sources and the promises of the optimize calls
    batchSources, promises,
    \* OptimizedBackgroundImage: image.src, lqip and the src of useLazyImage
    imageSrc, lqip, lazySrc,
    \* useImagePreload: the sources of the current render, the two states of
    \* the hook, the Image objects created so far, the number of renders
    preloadSources, loadedCount, errors, images, renders,
    \* optimizeImages: the entries of its images and their optimize promises
    imageEntries, imagePromises,
    \* useLazyImage: the arguments of the current render, whether the hook is
    \* mounted, its four states, whether its observer observes, the Image
    \* objects created so far, the callbacks invoked so far
    props, mounted, isLoaded, isLoading, errorState, currentSrc, observing,
    loads, callbackLog,
    \* the colors argument of encodeLQIPInteger
    colors

vars == <<filename, hash, pc, op, ret, err, calls,
          provider, source, width, height,
          batchSources, promises, imageSrc, lqip, lazySrc,
          preloadSources, loadedCount, errors, images, renders,
          imageEntries, imagePromises,
          props, mounted, isLoaded, isLoading, errorState, currentSrc,
          observing, loads, callbackLog, colors>>

cacheVars == <<filename, hash>>

callVars == <<pc, op, ret, err>>

keysVars == <<calls>>

adapterVars == <<provider, source, width, height>>

batchVars == <<batchSources, promises>>

backgroundVars == <<imageSrc, lqip, lazySrc>>

preloadVars == <<preloadSources, loadedCount, errors, images, renders>>

imagesVars == <<imageEntries, imagePromises>>

hookVars == <<isLoaded, isLoading, errorState, currentSrc>>

lazyVars == <<props, mounted, hookVars, observing, loads, callbackLog>>

colorVars == <<colors>>

\* the state outside one call of a cache-key function
notCallVars ==
    <<keysVars, adapterVars, batchVars, backgroundVars, preloadVars,
      imagesVars, lazyVars, colorVars>>

\* the state outside the storage layer
notKeysVars ==
    <<cacheVars, callVars, adapterVars, batchVars, backgroundVars,
      preloadVars,
      imagesVars, lazyVars, colorVars>>

\* the state outside one call of an adapter method
notAdapterVars ==
    <<cacheVars, keysVars, batchVars, backgroundVars, preloadVars,
      imagesVars, lazyVars, colorVars>>

\* the state outside one optimizeBatch call
notBatchVars ==
    <<cacheVars, keysVars, adapterVars, backgroundVars, preloadVars,
      imagesVars, lazyVars, colorVars>>

\* the state outside one OptimizedBackgroundImage
notBackgroundVars ==
    <<cacheVars, keysVars, adapterVars, batchVars, preloadVars,
      imagesVars, lazyVars, colorVars>>

\* the state outside one optimizeImages call
notImagesVars ==
    <<cacheVars, keysVars, adapterVars, batchVars, backgroundVars,
      preloadVars, lazyVars, colorVars>>

\* the state outside one useLazyImage
notLazyVars ==
    <<cacheVars, callVars, keysVars, adapterVars, batchVars, backgroundVars,
      preloadVars, imagesVars, colorVars>>

\* the state outside one useImagePreload
notPreloadVars ==
    <<cacheVars, callVars, keysVars, adapterVars, batchVars, backgroundVars,
      imagesVars, lazyVars, colorVars>>

\* the state outside one call of the LQIP integer functions
notColorVars ==
    <<cacheVars, keysVars, adapterVars, batchVars, backgroundVars,
      preloadVars, imagesVars, lazyVars>>

(***************************************************************************)
(* Bounds of the explored inputs.                                          *)
(***************************************************************************)
\* longest filename enumerated exhaustively over Alphabet
MaxShortLen == 3
\* longest filename enumerated exhaustively over WideAlphabet
MaxWideLen == 1
\* long filenames have a filler run of MAX_FILENAME_LENGTH +- LongSlack units
LongSlack == 2
\* hashes have HASH_HEX_LENGTH +- HashSlack code units
HashSlack == 1

(***************************************************************************)
(* Program constants.                                                      *)
(***************************************************************************)
\* cache.ts:140  the {64} quantifier of /^[a-f0-9]{64}$/i
HASH_HEX_LENGTH == 64
\* cache.ts:155  .substring(0, 255)
MAX_FILENAME_LENGTH == 255
\* cache.security.test.ts:232  'a'.repeat(300)
LONG_NAME_REPEAT == 300
\* cache.security.test.ts:321  'invalid'.length
SHORT_HASH_LENGTH == 7

(***************************************************************************)
(* String helpers.                                                         *)
(***************************************************************************)
Repeat(c, n) == [i \in 1..n |-> c]

RECURSIVE StringsUpTo(_, _)
StringsUpTo(alphabet, n) ==
    IF n = 0 THEN {<<>>}
    ELSE LET shorter == StringsUpTo(alphabet, n - 1)
         IN  shorter \cup {Append(s, c) : s \in shorter, c \in alphabet}

(***************************************************************************)
(* errors: ImageOptimizationError and ImageConfigError.                    *)
(***************************************************************************)
ImageOptimizationError(message, code, context) ==
    [name |-> "ImageOptimizationError", message |-> message,
     code |-> code, context |-> context]

ImageConfigError(message, context) ==
    [ImageOptimizationError(message, "CONFIG_ERROR", context)
        EXCEPT !.name = "ImageConfigError"]

(***************************************************************************)
(* Completions of a call: a normal return or a thrown error.               *)
(***************************************************************************)
Return(value) == [completion |-> "return", value |-> value]

Throw(error) == [completion |-> "throw", value |-> error]

(***************************************************************************)
(* cache.ts: validateCacheHash, /^[a-f0-9]{64}$/i.test(hash)               *)
(***************************************************************************)
\* Canonicalize of a RegExp with the i flag and without the u flag: the
\* code unit's toUpperCase.  A non-ASCII code unit never canonicalizes to an
\* ASCII one (ECMA-262 22.2.2.7.3 step 3.g), so it is left as it is.
Canonicalize(ch) == IF ch \in 97..122 THEN ch - 32 ELSE ch

\* [a-f0-9] with the i flag forgotten
HexClassMatches_CaseSensitive(ch) == ch \in (97..102) \cup (48..57)

\* the character class [a-f0-9] under the i flag
HexClassMatches(ch) ==
    \E m \in (97..102) \cup (48..57) : Canonicalize(m) = Canonicalize(ch)

validateCacheHash(h) ==
    /\ Len(h) = HASH_HEX_LENGTH
    /\ \A i \in 1..Len(h) : HexClassMatches(h[i])

(***************************************************************************)
(* cache.ts: sanitizeFilename, a pipeline of four string operations.       *)
(***************************************************************************)
\* the negated class [^a-zA-Z0-9.-]
InvalidClassMatches(ch) ==
    ~ (\/ ch \in 97..122
       \/ ch \in 65..90
       \/ ch \in 48..57
       \/ ch = 46
       \/ ch = 45)

\* .replace(/[^a-zA-Z0-9.-]/g, '_'): every matching code unit becomes '_'
ReplaceInvalid(s) ==
    [i \in 1..Len(s) |-> IF InvalidClassMatches(s[i]) THEN 95 ELSE s[i]]

\* every code unit of the string paired with the code unit before it (-1
\* before the first)
WithPrevious(s) ==
    [i \in 1..Len(s) |-> <<s[i], IF i > 1 THEN s[i - 1] ELSE -1>>]

\* the first components of a sequence of pairs
Firsts(pairs) == [i \in 1..Len(pairs) |-> pairs[i][1]]

\* .replace(/\.\.+/g, '.'): every run of two or more dots becomes one dot,
\* that is, a dot that follows a dot is dropped
CollapseDots(s) ==
    LET Kept(p) == ~ (p[1] = 46 /\ p[2] = 46)
    IN  Firsts(SelectSeq(WithPrevious(s), Kept))

\* .substring(0, 256)
Truncate_OffByOne(s) ==
    IF Len(s) > MAX_FILENAME_LENGTH + 1
    THEN SubSeq(s, 1, MAX_FILENAME_LENGTH + 1)
    ELSE s

\* .substring(0, 255)
Truncate(s) ==
    IF Len(s) > MAX_FILENAME_LENGTH THEN SubSeq(s, 1, MAX_FILENAME_LENGTH)
    ELSE s

\* the class [.-]
DotDashClassMatches(ch) == ch = 46 \/ ch = 45

\* index of the first code unit in lo..hi that is not in [.-], hi + 1 when
\* there is none (the end of the match of ^[.-]+), found by halving
RECURSIVE FirstNotDotDash(_, _, _)
FirstNotDotDash(s, lo, hi) ==
    IF lo > hi THEN hi + 1
    ELSE IF lo = hi THEN (IF DotDashClassMatches(s[lo]) THEN hi + 1 ELSE lo)
    ELSE LET mid  == (lo + hi) \div 2
             left == FirstNotDotDash(s, lo, mid)
         IN  IF left <= mid THEN left ELSE FirstNotDotDash(s, mid + 1, hi)

\* index of the last code unit in lo..hi that is not in [.-], lo - 1 when
\* there is none (the start of the match of [.-]+$), found by halving
RECURSIVE LastNotDotDash(_, _, _)
LastNotDotDash(s, lo, hi) ==
    IF lo > hi THEN lo - 1
    ELSE IF lo = hi THEN (IF DotDashClassMatches(s[lo]) THEN lo - 1 ELSE lo)
    ELSE LET mid   == (lo + hi) \div 2
             right == LastNotDotDash(s, mid + 1, hi)
         IN  IF right > mid THEN right ELSE LastNotDotDash(s, lo, mid)

\* .replace(/^[.-]|[.-]$/g, ''): drops one leading and one trailing unit
StripDotDash_OneUnit(s) ==
    LET first == IF Len(s) > 0 /\ DotDashClassMatches(s[1]) THEN 2 ELSE 1
        last  == IF Len(s) > 0 /\ DotDashClassMatches(s[Len(s)])
                 THEN Len(s) - 1 ELSE Len(s)
    IN  IF first > last THEN <<>> ELSE SubSeq(s, first, last)

\* .replace(/^[.-]+|[.-]+$/g, ''): drops the leading and the trailing run
StripDotDash(s) ==
    LET first == FirstNotDotDash(s, 1, Len(s))
        last  == LastNotDotDash(s, 1, Len(s))
    IN  IF first > last THEN <<>> ELSE SubSeq(s, first, last)

\* the dot-collapsing step left out
sanitizeFilename_NoDotCollapse(f) ==
    StripDotDash(Truncate(ReplaceInvalid(f)))

\* the length limit applied after the leading/trailing strip
sanitizeFilename_StripBeforeTruncate(f) ==
    Truncate(StripDotDash(CollapseDots(ReplaceInvalid(f))))

sanitizeFilename(f) ==
    StripDotDash(Truncate(CollapseDots(ReplaceInvalid(f))))

(***************************************************************************)
(* cache.ts: generateSecureCacheKey                                        *)
(***************************************************************************)
\* the empty-name check left out
generateSecureCacheKey_NoEmptyCheck(f, h) ==
    IF ~ validateCacheHash(h)
    THEN Throw(ImageConfigError(
            "Invalid cache hash: must be 64-character SHA-256 hex string",
            [hash |-> h, hashLength |-> Len(h), expectedLength |-> 64]))
    ELSE Return(sanitizeFilename(f) \o <<45>> \o h)

\* String.prototype.toLowerCase on the code units of a hash
ToLowerCase(s) ==
    [i \in 1..Len(s) |-> IF s[i] \in 65..90 THEN s[i] + 32 ELSE s[i]]

\* the key built from a normalised hash
generateSecureCacheKey_LowerCasedHash(f, h) ==
    IF ~ validateCacheHash(h)
    THEN Throw(ImageConfigError(
            "Invalid cache hash: must be 64-character SHA-256 hex string",
            [hash |-> h, hashLength |-> Len(h), expectedLength |-> 64]))
    ELSE LET safeFilename == sanitizeFilename(f)
         IN  IF safeFilename = <<>>
             THEN Throw(ImageConfigError(
                    "Invalid filename: sanitization resulted in empty string",
                    [originalFilename |-> f]))
             ELSE Return(safeFilename \o <<45>> \o ToLowerCase(h))

\* the filename checked before the hash
generateSecureCacheKey_FilenameFirst(f, h) ==
    LET safeFilename == sanitizeFilename(f)
    IN  IF safeFilename = <<>>
        THEN Throw(ImageConfigError(
                "Invalid filename: sanitization resulted in empty string",
                [originalFilename |-> f]))
        ELSE IF ~ validateCacheHash(h)
             THEN Throw(ImageConfigError(
                    "Invalid cache hash: must be 64-character SHA-256 hex string",
                    [hash |-> h, hashLength |-> Len(h), expectedLength |-> 64]))
             ELSE Return(safeFilename \o <<45>> \o h)

\* the sanitized name reported in place of the raw one
generateSecureCacheKey_SafeNameInContext(f, h) ==
    IF ~ validateCacheHash(h)
    THEN Throw(ImageConfigError(
            "Invalid cache hash: must be 64-character SHA-256 hex string",
            [hash |-> h, hashLength |-> Len(h), expectedLength |-> 64]))
    ELSE LET safeFilename == sanitizeFilename(f)
         IN  IF safeFilename = <<>>
             THEN Throw(ImageConfigError(
                    "Invalid filename: sanitization resulted in empty string",
                    [originalFilename |-> safeFilename]))
             ELSE Return(safeFilename \o <<45>> \o h)

\* the whole key lower-cased
generateSecureCacheKey_LowerCasedKey(f, h) ==
    IF ~ validateCacheHash(h)
    THEN Throw(ImageConfigError(
            "Invalid cache hash: must be 64-character SHA-256 hex string",
            [hash |-> h, hashLength |-> Len(h), expectedLength |-> 64]))
    ELSE LET safeFilename == sanitizeFilename(f)
         IN  IF safeFilename = <<>>
             THEN Throw(ImageConfigError(
                    "Invalid filename: sanitization resulted in empty string",
                    [originalFilename |-> f]))
             ELSE Return(ToLowerCase(safeFilename \o <<45>> \o h))

\* the key built from the raw filename
generateSecureCacheKey_RawNameInKey(f, h) ==
    IF ~ validateCacheHash(h)
    THEN Throw(ImageConfigError(
            "Invalid cache hash: must be 64-character SHA-256 hex string",
            [hash |-> h, hashLength |-> Len(h), expectedLength |-> 64]))
    ELSE LET safeFilename == sanitizeFilename(f)
         IN  IF safeFilename = <<>>
             THEN Throw(ImageConfigError(
                    "Invalid filename: sanitization resulted in empty string",
                    [originalFilename |-> f]))
             ELSE Return(f \o <<45>> \o h)

generateSecureCacheKey(f, h) ==
    IF ~ validateCacheHash(h)
    THEN Throw(ImageConfigError(
            "Invalid cache hash: must be 64-character SHA-256 hex string",
            [hash |-> h, hashLength |-> Len(h), expectedLength |-> 64]))
    ELSE LET safeFilename == sanitizeFilename(f)
         IN  IF safeFilename = <<>>
             THEN Throw(ImageConfigError(
                    "Invalid filename: sanitization resulted in empty string",
                    [originalFilename |-> f]))
             ELSE Return(safeFilename \o <<45>> \o h)

(***************************************************************************)
(* errors: the plain Error of JavaScript and the other error classes.      *)
(***************************************************************************)
\* new Error(message): a name and a message, no code and no context
Error(message) == [name |-> "Error", message |-> message]

\* thrown by encodeURIComponent on a lone surrogate
URIError(message) == [name |-> "URIError", message |-> message]

ImageValidationError(message, context) ==
    [ImageOptimizationError(message, "VALIDATION_ERROR", context)
        EXCEPT !.name = "ImageValidationError"]

(***************************************************************************)
(* String operations of JavaScript used by the adapters.                   *)
(***************************************************************************)
\* String.prototype.startsWith
StartsWith(s, prefix) ==
    /\ Len(prefix) <= Len(s)
    /\ SubSeq(s, 1, Len(prefix)) = prefix

\* String.prototype.indexOf, 0 when the part does not occur
IndexOf(s, part) ==
    LET hits == {i \in 1..(Len(s) - Len(part) + 1) :
                    SubSeq(s, i, i + Len(part) - 1) = part}
    IN  IF hits = {} THEN 0
        ELSE CHOOSE i \in hits : \A j \in hits : i <= j

\* String.prototype.includes
Includes(s, part) == IndexOf(s, part) # 0

\* String.prototype.replace(pattern, replacement) with a string pattern and
\* a replacement free of '$': the first occurrence is replaced
ReplaceFirst(s, pattern, replacement) ==
    LET at == IndexOf(s, pattern)
    IN  IF at = 0 THEN s
        ELSE SubSeq(s, 1, at - 1) \o replacement
                \o SubSeq(s, at + Len(pattern), Len(s))

\* Number.prototype.toString of a non-negative integer
RECURSIVE NumberToString(_)
NumberToString(n) ==
    IF n < 10 THEN <<48 + n>>
    ELSE Append(NumberToString(n \div 10), 48 + (n % 10))

\* the string matches the pattern up to Canonicalize, as under the i flag
MatchesIgnoreCase(s, pattern) ==
    /\ Len(s) = Len(pattern)
    /\ \A i \in 1..Len(s) : Canonicalize(s[i]) = Canonicalize(pattern[i])

(***************************************************************************)
(* encodeURIComponent (ECMA-262 19.2.6.5, Encode with the unreserved set). *)
(***************************************************************************)
\* A-Z a-z 0-9 - _ . ! ~ * ' ( )
uriUnreserved ==
    (65..90) \cup (97..122) \cup (48..57)
        \cup {45, 95, 46, 33, 126, 42, 39, 40, 41}

IsLeadingSurrogate(c) == c \in 55296..56319

IsTrailingSurrogate(c) == c \in 56320..57343

\* the UTF-8 octets of a code point
UTF8Octets(cp) ==
    IF cp < 128 THEN <<cp>>
    ELSE IF cp < 2048 THEN <<192 + (cp \div 64), 128 + (cp % 64)>>
    ELSE IF cp < 65536
         THEN <<224 + (cp \div 4096), 128 + ((cp \div 64) % 64),
                128 + (cp % 64)>>
    ELSE <<240 + (cp \div 262144), 128 + ((cp \div 4096) % 64),
           128 + ((cp \div 64) % 64), 128 + (cp % 64)>>

\* an upper-case hexadecimal digit
HexDigit(d) == IF d < 10 THEN 48 + d ELSE 55 + d

\* '%XX' for every octet
RECURSIVE PercentEncode(_)
PercentEncode(octets) ==
    IF octets = <<>> THEN <<>>
    ELSE <<37, HexDigit(Head(octets) \div 16), HexDigit(Head(octets) % 16)>>
            \o PercentEncode(Tail(octets))

\* the completion with a prefix put before a returned string
Prefixed(prefix, completion) ==
    IF completion.completion = "return"
    THEN Return(prefix \o completion.value)
    ELSE completion

RECURSIVE EncodeFrom(_, _)
EncodeFrom(s, k) ==
    IF k > Len(s) THEN Return(<<>>)
    ELSE IF s[k] \in uriUnreserved
         THEN Prefixed(<<s[k]>>, EncodeFrom(s, k + 1))
    ELSE IF IsTrailingSurrogate(s[k])
         THEN Throw(URIError("URI malformed"))
    ELSE IF ~ IsLeadingSurrogate(s[k])
         THEN Prefixed(PercentEncode(UTF8Octets(s[k])), EncodeFrom(s, k + 1))
    ELSE IF k + 1 > Len(s) \/ ~ IsTrailingSurrogate(s[k + 1])
         THEN Throw(URIError("URI malformed"))
    ELSE Prefixed(
            PercentEncode(UTF8Octets(
                (s[k] - 55296) * 1024 + (s[k + 1] - 56320) + 65536)),
            EncodeFrom(s, k + 2))

encodeURIComponent(s) == EncodeFrom(s, 1)

(***************************************************************************)
(* cdn-adapter.ts: sanitizeSource                                          *)
(***************************************************************************)
\* .jpg .jpeg .png .webp .avif .gif .svg
validExtensions ==
    {<<46, 106, 112, 103>>, <<46, 106, 112, 101, 103>>, <<46, 112, 110, 103>>,
     <<46, 119, 101, 98, 112>>, <<46, 97, 118, 105, 102>>, <<46, 103, 105, 102>>,
     <<46, 115, 118, 103>>}

\* /\.(jpg|jpeg|png|webp|avif|gif|svg)$/i.test(s)
validExtensionsTest(s) ==
    \E e \in validExtensions :
        /\ Len(e) <= Len(s)
        /\ MatchesIgnoreCase(SubSeq(s, Len(s) - Len(e) + 1, Len(s)), e)

sanitizeSource(s) ==
    IF Includes(s, <<46, 46, 47>>) \/ Includes(s, <<46, 46, 92>>)
    THEN Throw(Error("Path traversal detected in image source"))
    ELSE IF StartsWith(s, <<47>>)
    THEN Throw(Error("Absolute paths not allowed, use relative paths"))
    ELSE IF ~ validExtensionsTest(s)
    THEN Throw(Error("Invalid image source: must have valid image extension"))
    ELSE encodeURIComponent(s)

(***************************************************************************)
(* types.ts: SECURITY_LIMITS                                               *)
(***************************************************************************)
MAX_WIDTH == 10000

MAX_HEIGHT == 10000

\* 50 mebipixels
MAX_PIXELS == 52428800

(***************************************************************************)
(* base-adapter.ts: validateDimensions                                     *)
(***************************************************************************)
\* an optional number is undefined or a one-element tuple holding the number
undefined == <<>>

\* the pixel budget is not checked
validateDimensions_NoPixelCheck(w, h) ==
    IF w # undefined /\ w[1] > MAX_WIDTH
    THEN Throw(ImageValidationError(
            <<"Image width ", w[1], "px exceeds maximum allowed: ",
              MAX_WIDTH, "px">>,
            [width |-> w[1], maxWidth |-> MAX_WIDTH,
             reason |-> "width_exceeded"]))
    ELSE IF h # undefined /\ h[1] > MAX_HEIGHT
    THEN Throw(ImageValidationError(
            <<"Image height ", h[1], "px exceeds maximum allowed: ",
              MAX_HEIGHT, "px">>,
            [height |-> h[1], maxHeight |-> MAX_HEIGHT,
             reason |-> "height_exceeded"]))
    ELSE Return(undefined)

\* the pixel budget is checked before the two axes
validateDimensions_PixelsFirst(w, h) ==
    IF w # undefined /\ h # undefined /\ w[1] * h[1] > MAX_PIXELS
    THEN Throw(ImageValidationError(
            <<"Image dimensions ", w[1], "x", h[1], " (", w[1] * h[1],
              " pixels) exceed maximum allowed: ", MAX_PIXELS, " pixels">>,
            [width |-> w[1], height |-> h[1], pixels |-> w[1] * h[1],
             maxPixels |-> MAX_PIXELS, reason |-> "pixels_exceeded"]))
    ELSE IF w # undefined /\ w[1] > MAX_WIDTH
    THEN Throw(ImageValidationError(
            <<"Image width ", w[1], "px exceeds maximum allowed: ",
              MAX_WIDTH, "px">>,
            [width |-> w[1], maxWidth |-> MAX_WIDTH,
             reason |-> "width_exceeded"]))
    ELSE IF h # undefined /\ h[1] > MAX_HEIGHT
    THEN Throw(ImageValidationError(
            <<"Image height ", h[1], "px exceeds maximum allowed: ",
              MAX_HEIGHT, "px">>,
            [height |-> h[1], maxHeight |-> MAX_HEIGHT,
             reason |-> "height_exceeded"]))
    ELSE Return(undefined)

validateDimensions(w, h) ==
    IF w # undefined /\ w[1] > MAX_WIDTH
    THEN Throw(ImageValidationError(
            <<"Image width ", w[1], "px exceeds maximum allowed: ",
              MAX_WIDTH, "px">>,
            [width |-> w[1], maxWidth |-> MAX_WIDTH,
             reason |-> "width_exceeded"]))
    ELSE IF h # undefined /\ h[1] > MAX_HEIGHT
    THEN Throw(ImageValidationError(
            <<"Image height ", h[1], "px exceeds maximum allowed: ",
              MAX_HEIGHT, "px">>,
            [height |-> h[1], maxHeight |-> MAX_HEIGHT,
             reason |-> "height_exceeded"]))
    ELSE IF w # undefined /\ h # undefined /\ w[1] * h[1] > MAX_PIXELS
    THEN Throw(ImageValidationError(
            <<"Image dimensions ", w[1], "x", h[1], " (", w[1] * h[1],
              " pixels) exceed maximum allowed: ", MAX_PIXELS, " pixels">>,
            [width |-> w[1], height |-> h[1], pixels |-> w[1] * h[1],
             maxPixels |-> MAX_PIXELS, reason |-> "pixels_exceeded"]))
    ELSE Return(undefined)

(***************************************************************************)
(* format.ts: detectImageFormat; quality.ts: getQualityForFormat;          *)
(* lqip.ts: mergeLQIPConfig                                                *)
(***************************************************************************)
\* the value null
null == "null"

\* the image formats as they are written into a URL
formatString ==
    [svg |-> <<115, 118, 103>>, png |-> <<112, 110, 103>>,
     webp |-> <<119, 101, 98, 112>>, avif |-> <<97, 118, 105, 102>>,
     jpeg |-> <<106, 112, 101, 103>>, jpg |-> <<106, 112, 103>>]

\* source.toLowerCase().match(/\.(svg|png|webp|avif|jpe?g)$/)?.[0] looked up
\* in EXTENSION_MAP
detectImageFormat(s) ==
    LET lower == ToLowerCase(s)
        found == {f \in DOMAIN formatString :
                     LET e == <<46>> \o formatString[f]
                     IN  /\ Len(e) <= Len(lower)
                         /\ SubSeq(lower, Len(lower) - Len(e) + 1,
                                   Len(lower)) = e}
    IN  IF found = {} THEN null ELSE CHOOSE f \in found : TRUE

\* DEFAULT_QUALITY, the table of the balanced profile
DEFAULT_QUALITY == [png |-> 100, webp |-> 90, avif |-> 85, jpeg |-> 80, jpg |-> 80]

\* getQualityForFormat(format, 'balanced', undefined)
getQualityForFormat(format) ==
    IF format = "svg" THEN 100
    ELSE IF format \in DOMAIN DEFAULT_QUALITY THEN DEFAULT_QUALITY[format]
    ELSE DEFAULT_QUALITY.webp

DEFAULT_LQIP_CONFIG ==
    [enabled |-> TRUE, width |-> 20, height |-> 20, quality |-> 10,
     blur |-> 10, format |-> "webp"]

\* mergeLQIPConfig(custom) for a custom configuration that holds at most a
\* width and a height: { ...DEFAULT_LQIP_CONFIG, ...custom }
mergeLQIPConfig(w, h) ==
    [DEFAULT_LQIP_CONFIG EXCEPT
        !.width = IF w # undefined THEN w[1] ELSE @,
        !.height = IF h # undefined THEN h[1] ELSE @]

(***************************************************************************)
(* cdn-adapter.ts: the URL builders, optimize and generateLQIP             *)
(***************************************************************************)
CDNProviders == {"cloudflare", "imgix", "cloudinary", "generic"}

\* config.baseUrl.replace(/\/$/, '') of 'https://cdn.example.com'
baseUrl == <<104, 116, 116, 112, 115, 58, 47, 47, 99, 100, 110, 46, 101, 120, 97, 109, 112, 108, 101, 46, 99, 111, 109>>

\* a value is truthy: a number that is defined and not 0
Truthy(n) == n # undefined /\ n[1] # 0

RECURSIVE Join(_, _)
Join(parts, separator) ==
    IF parts = <<>> THEN <<>>
    ELSE IF Len(parts) = 1 THEN parts[1]
    ELSE parts[1] \o separator \o Join(Tail(parts), separator)

\* the application/x-www-form-urlencoded serialisation of one name or value
\* of a URLSearchParams: alphanumerics and * - . _ stay, a space becomes '+'
RECURSIVE FormEncode(_)
FormEncode(s) ==
    IF s = <<>> THEN <<>>
    ELSE (IF Head(s) \in (65..90) \cup (97..122) \cup (48..57)
                            \cup {42, 45, 46, 95}
          THEN <<Head(s)>>
          ELSE IF Head(s) = 32 THEN <<43>>
          ELSE PercentEncode(UTF8Octets(Head(s))))
         \o FormEncode(Tail(s))

getURLBuilderConfig(p) ==
    CASE p = "cloudflare" ->
            [formatKey |-> <<102, 111, 114, 109, 97, 116, 61>>,
             qualityKey |-> <<113, 117, 97, 108, 105, 116, 121, 61>>,
             widthKey |-> <<119, 105, 100, 116, 104, 61>>,
             heightKey |-> <<104, 101, 105, 103, 104, 116, 61>>,
             useQueryParams |-> FALSE,
             \* '/cdn-cgi/image/{params}/{source}'
             pathTemplate |-> <<47, 99, 100, 110, 45, 99, 103, 105, 47, 105, 109, 97, 103, 101, 47, 123, 112, 97, 114, 97, 109, 115, 125, 47, 123, 115, 111, 117, 114, 99, 101, 125>>,
             separator |-> <<44>>,
             additionalParams |-> <<>>]
      [] p = "imgix" ->
            [formatKey |-> <<102, 109>>, qualityKey |-> <<113>>,
             widthKey |-> <<119>>, heightKey |-> <<104>>,
             useQueryParams |-> TRUE,
             pathTemplate |-> <<>>,
             separator |-> <<>>,
             \* { auto: 'compress,format' }
             additionalParams |->
                <<<<<<97, 117, 116, 111>>, <<99, 111, 109, 112, 114, 101, 115, 115, 44, 102, 111, 114, 109, 97, 116>>>>>>]
      [] p = "cloudinary" ->
            [formatKey |-> <<102, 95>>, qualityKey |-> <<113, 95>>,
             widthKey |-> <<119, 95>>, heightKey |-> <<104, 95>>,
             useQueryParams |-> FALSE,
             \* '/image/upload/{params}/{source}'
             pathTemplate |-> <<47, 105, 109, 97, 103, 101, 47, 117, 112, 108, 111, 97, 100, 47, 123, 112, 97, 114, 97, 109, 115, 125, 47, 123, 115, 111, 117, 114, 99, 101, 125>>,
             separator |-> <<44>>,
             additionalParams |-> <<>>]
      [] OTHER ->
            [formatKey |-> <<102, 111, 114, 109, 97, 116>>,
             qualityKey |-> <<113, 117, 97, 108, 105, 116, 121>>,
             widthKey |-> <<119, 105, 100, 116, 104>>,
             heightKey |-> <<104, 101, 105, 103, 104, 116>>,
             useQueryParams |-> TRUE,
             pathTemplate |-> <<>>,
             separator |-> <<>>,
             additionalParams |-> <<>>]

\* `${this.baseUrl}/${source}?${searchParams.toString()}`
buildQueryParamURL(s, params, config) ==
    LET entries ==
            <<<<config.formatKey, formatString[params.format]>>,
              <<config.qualityKey, NumberToString(params.quality)>>>>
            \o config.additionalParams
            \o (IF Truthy(params.width)
                THEN <<<<config.widthKey, NumberToString(params.width[1])>>>>
                ELSE <<>>)
            \o (IF Truthy(params.height)
                THEN <<<<config.heightKey, NumberToString(params.height[1])>>>>
                ELSE <<>>)
        searchParams ==
            Join([i \in 1..Len(entries) |->
                    FormEncode(entries[i][1]) \o <<61>>
                        \o FormEncode(entries[i][2])],
                 <<38>>)
    IN  baseUrl \o <<47>> \o s \o <<63>> \o searchParams

\* the path template with {params} and {source} replaced, after the base URL
buildPathBasedURL(s, params, config) ==
    LET transformations ==
            <<config.formatKey \o formatString[params.format],
              config.qualityKey \o NumberToString(params.quality)>>
            \o (IF Truthy(params.width)
                THEN <<config.widthKey \o NumberToString(params.width[1])>>
                ELSE <<>>)
            \o (IF Truthy(params.height)
                THEN <<config.heightKey \o NumberToString(params.height[1])>>
                ELSE <<>>)
        paramsString ==
            Join(transformations,
                 IF config.separator # <<>> THEN config.separator
                 ELSE <<44>>)
    IN  IF config.pathTemplate # <<>>
        THEN baseUrl \o ReplaceFirst(
                ReplaceFirst(config.pathTemplate, <<123, 112, 97, 114, 97, 109, 115, 125>>,
                             paramsString),
                <<123, 115, 111, 117, 114, 99, 101, 125>>, s)
        ELSE baseUrl \o <<47>> \o paramsString \o <<47>> \o s

\* the source interpolated as it is given
buildCDNUrl_RawSource(p, s, params) ==
    LET config == getURLBuilderConfig(p)
    IN  IF config.useQueryParams
        THEN Return(buildQueryParamURL(s, params, config))
        ELSE Return(buildPathBasedURL(s, params, config))

buildCDNUrl(p, s, params) ==
    LET safeSource == sanitizeSource(s)
        config == getURLBuilderConfig(p)
    IN  IF safeSource.completion = "throw" THEN safeSource
        ELSE IF config.useQueryParams
        THEN Return(buildQueryParamURL(safeSource.value, params, config))
        ELSE Return(buildPathBasedURL(safeSource.value, params, config))

\* string sources: getSourceString returns the string itself
getSourceString(s) == s

\* the promise of optimize(source, { width, height }): a return stands for
\* fulfilment, a throw for rejection
CDNImageAdapter_optimize(p, s, w, h) ==
    LET checked == validateDimensions(w, h)
        sourceString == getSourceString(s)
        detectedFormat == detectImageFormat(sourceString)
        format == IF detectedFormat # null THEN detectedFormat ELSE "webp"
        quality == getQualityForFormat(format)
        url == buildCDNUrl(p, sourceString,
                    [format |-> format, quality |-> quality,
                     width |-> IF Truthy(w) THEN w ELSE undefined,
                     height |-> IF Truthy(h) THEN h ELSE undefined])
    IN  IF checked.completion = "throw" THEN checked
        ELSE IF url.completion = "throw" THEN url
        ELSE Return([src |-> url.value,
                     width |-> IF Truthy(w) THEN w[1] ELSE 0,
                     height |-> IF Truthy(h) THEN h[1] ELSE 0,
                     format |-> format])

\* the promise of generateLQIP(source, { width, height })
CDNImageAdapter_generateLQIP(p, s, w, h) ==
    LET lqipConfig == mergeLQIPConfig(w, h)
    IN  buildCDNUrl(p, getSourceString(s),
            [format |-> lqipConfig.format, quality |-> lqipConfig.quality,
             width |-> <<lqipConfig.width>>,
             height |-> <<lqipConfig.height>>])

(***************************************************************************)
(* base-adapter.ts: handleError; astro-adapter.ts: optimize                *)
(***************************************************************************)
\* new Error(`[${this.adapterName}] ${operation} failed: ${message}`) with
\* message = error instanceof Error ? error.message : 'Unknown error'
handleError(adapterName, operation, error) ==
    Error(<<"[", adapterName, "] ", operation, " failed: ",
            IF "message" \in DOMAIN error THEN error.message
            ELSE "Unknown error">>)

\* what the getImage function of the consumer may do with its options: a
\* result, an Error, or a rejection with a value that is not an Error
getImageOutcomes(w, h) ==
    {Return([src |-> <<47, 95, 97, 115, 116, 114, 111, 47, 105, 109, 97, 103, 101, 46, 104, 97, 115, 104, 46, 119, 101, 98, 112>>,
             attributes |-> [width |-> IF Truthy(w) THEN w[1] ELSE 1920,
                             height |-> IF Truthy(h) THEN h[1] ELSE 1080]]),
     Throw(Error("Could not transform image")),
     Throw([name |-> "string"])}

\* the promise of AstroImageAdapter.optimize(source, { width, height }) for a
\* string source, getImage settling as given: everything thrown inside the
\* try block is replaced by the Error of handleError
AstroImageAdapter_optimize(s, w, h, getImageOutcome) ==
    LET checked == validateDimensions(w, h)
        sourceString == getSourceString(s)
        detectedFormat == detectImageFormat(sourceString)
        format == IF detectedFormat # null THEN detectedFormat ELSE "webp"
        attempt ==
            IF checked.completion = "throw" THEN checked
            \* isVectorFormat(format): handleSVG
            ELSE IF format = "svg"
            THEN Return([src |-> sourceString, width |-> 0, height |-> 0,
                         format |-> "svg"])
            ELSE IF getImageOutcome.completion = "throw" THEN getImageOutcome
            ELSE Return([src |-> getImageOutcome.value.src,
                         width |-> getImageOutcome.value.attributes.width,
                         height |-> getImageOutcome.value.attributes.height,
                         format |-> format])
    IN  IF attempt.completion = "throw"
        THEN Throw(handleError("AstroImageAdapter", "optimize", attempt.value))
        ELSE attempt

(***************************************************************************)
(* lqip.ts: encodeLQIPInteger and decodeLQIPInteger                        *)
(***************************************************************************)
\* x & y and x | y of two 32-bit integers in two's complement, bit by bit
\* from the lowest: x % 2 is the lowest bit and x \div 2 the arithmetic
\* shift by one, which ends in 0 or in -1 (all ones)
RECURSIVE BitAnd(_, _)
BitAnd(x, y) ==
    IF x = 0 \/ y = 0 THEN 0
    ELSE IF x = -1 THEN y
    ELSE IF y = -1 THEN x
    ELSE (x % 2) * (y % 2) + 2 * BitAnd(x \div 2, y \div 2)

RECURSIVE BitOr(_, _)
BitOr(x, y) ==
    IF x = 0 THEN y
    ELSE IF y = 0 THEN x
    ELSE IF x = -1 \/ y = -1 THEN -1
    ELSE (IF x % 2 = 1 \/ y % 2 = 1 THEN 1 ELSE 0)
            + 2 * BitOr(x \div 2, y \div 2)

\* x << n, for operands whose product with 2^n stays within 32 bits
ShiftLeft(x, n) == x * 2^n

\* x >> n, the sign-propagating shift
ShiftRight(x, n) == x \div 2^n

encodeLQIPInteger(c) ==
    BitOr(BitOr(ShiftLeft(c.r, 16), ShiftLeft(c.g, 8)), c.b)

\* the shifted value is returned as it is, without & 0xff
decodeLQIPInteger_NoMask(encoded) ==
    [r |-> ShiftRight(encoded, 16),
     g |-> ShiftRight(encoded, 8),
     b |-> BitAnd(encoded, 255)]

decodeLQIPInteger(encoded) ==
    [r |-> BitAnd(ShiftRight(encoded, 16), 255),
     g |-> BitAnd(ShiftRight(encoded, 8), 255),
     b |-> BitAnd(encoded, 255)]

(***************************************************************************)
(* Inputs.                                                                 *)
(***************************************************************************)
\* a . - / \ _
Alphabet == {97, 46, 45, 47, 92, 95}

\* code units at and around the edges of the character classes
WideAlphabet ==
    {0, 32, 44, 45, 46, 47, 48, 57, 58, 64, 65, 90, 91, 92, 95, 96, 97, 122,
     123, 233, 55357, 56832}

ShortFilenames ==
    StringsUpTo(Alphabet, MaxShortLen) \cup StringsUpTo(WideAlphabet, MaxWideLen)

\* '.jpg'
ExtJpg == <<46, 106, 112, 103>>

LongHeads == {<<>>, <<97>>, <<46>>, <<47>>}

LongFills == {97, 46, 45, 47}

LongTails == {<<>>, <<46>>, <<45>>, <<97>>, <<47, 47>>, <<46, 46>>, ExtJpg}

LongRuns ==
    ((MAX_FILENAME_LENGTH - LongSlack)..(MAX_FILENAME_LENGTH + LongSlack))
        \cup {LONG_NAME_REPEAT}

LongFilenames ==
    {hd \o Repeat(c, n) \o tl :
        hd \in LongHeads, c \in LongFills, n \in LongRuns, tl \in LongTails}

FilenameInputs == ShortFilenames \cup LongFilenames

\* 'image.jpg'-like, empty after sanitization, only invalid, traversal
CoreFilenames ==
    {<<97>> \o ExtJpg, <<>>, <<46, 46, 46>>, <<45, 45, 45>>, <<47, 47, 47>>,
     <<46, 46, 47, 97>>, <<97, 47, 47, 46, 46, 97>>}

HashFills == {97, 70, 48}

HashOdds ==
    {0, 10, 32, 45, 47, 48, 57, 58, 64, 65, 70, 71, 96, 97, 102, 103, 233, 8490}

HashLengths ==
    {0, SHORT_HASH_LENGTH}
        \cup ((HASH_HEX_LENGTH - HashSlack)..(HASH_HEX_LENGTH + HashSlack))

\* a run of one code unit with the first or the last unit replaced
HashInputs ==
    {[i \in 1..n |-> IF i = p THEN odd ELSE c] :
        c \in HashFills, odd \in HashOdds, n \in HashLengths,
        p \in {1, HASH_HEX_LENGTH, HASH_HEX_LENGTH + HashSlack}}

CoreHashes ==
    {Repeat(97, HASH_HEX_LENGTH),
     [i \in 1..HASH_HEX_LENGTH |-> IF i % 2 = 1 THEN 65 ELSE 102],
     Repeat(97, SHORT_HASH_LENGTH),
     Repeat(103, HASH_HEX_LENGTH),
     Repeat(48, HASH_HEX_LENGTH + 1),
     <<>>}

NoValue == <<>>

NoError == [name |-> "none"]

(***************************************************************************)
(* The calls.                                                              *)
(***************************************************************************)
\* every filename with a few hashes, every hash with a few filenames
InputPairs ==
    (ShortFilenames \X CoreHashes)
        \cup (LongFilenames \X {Repeat(97, HASH_HEX_LENGTH), <<>>})
        \cup (CoreFilenames \X HashInputs)

\* no call has been made yet
IdleCall ==
    /\ pc = "ready"
    /\ op = "none"
    /\ ret = NoValue
    /\ err = NoError

IdleCalls == calls = {}

\* no cache-key function is called
IdleCache ==
    /\ filename = <<>>
    /\ hash = <<>>

\* no adapter is constructed
IdleAdapter ==
    /\ provider = "none"
    /\ source = <<>>
    /\ width = <<>>
    /\ height = <<>>

\* no batch is under way
IdleBatch ==
    /\ batchSources = <<>>
    /\ promises = <<>>

\* no OptimizedBackgroundImage is mounted
IdleBackground ==
    /\ imageSrc = <<>>
    /\ lqip = <<>>
    /\ lazySrc = <<>>

\* no useImagePreload is mounted
IdlePreload ==
    /\ preloadSources = <<>>
    /\ loadedCount = 0
    /\ errors = <<>>
    /\ images = <<>>
    /\ renders = 0

\* optimizeImages is not called
IdleImages ==
    /\ imageEntries = <<>>
    /\ imagePromises = <<>>

\* no useLazyImage is mounted
IdleLazy ==
    /\ props = [src |-> <<>>, placeholder |-> <<>>, rootMargin |-> <<>>]
    /\ mounted = FALSE
    /\ isLoaded = FALSE
    /\ isLoading = FALSE
    /\ errorState = NoError
    /\ currentSrc = <<>>
    /\ observing = FALSE
    /\ loads = <<>>
    /\ callbackLog = <<>>

\* no colors are encoded
IdleColors == colors = <<>>

InitCache ==
    /\ \E input \in InputPairs :
        /\ filename = input[1]
        /\ hash = input[2]
    /\ IdleCall
    /\ IdleCalls
    /\ IdleAdapter
    /\ IdleBatch
    /\ IdleBackground
    /\ IdlePreload
    /\ IdleImages
    /\ IdleLazy
    /\ IdleColors

CallValidateCacheHash ==
    /\ pc = "ready"
    /\ op' = "validateCacheHash"
    /\ pc' = "returned"
    /\ ret' = validateCacheHash(hash)
    /\ UNCHANGED <<filename, hash, err>>
    /\ UNCHANGED notCallVars

CallSanitizeFilename ==
    /\ pc = "ready"
    /\ op' = "sanitizeFilename"
    /\ pc' = "returned"
    /\ ret' = sanitizeFilename(filename)
    /\ UNCHANGED <<filename, hash, err>>
    /\ UNCHANGED notCallVars

CallGenerateSecureCacheKey ==
    /\ pc = "ready"
    /\ op' = "generateSecureCacheKey"
    /\ LET outcome == generateSecureCacheKey(filename, hash)
       IN  IF outcome.completion = "return"
           THEN /\ pc' = "returned"
                /\ ret' = outcome.value
                /\ err' = NoError
           ELSE /\ pc' = "thrown"
                /\ ret' = NoValue
                /\ err' = outcome.value
    /\ UNCHANGED <<filename, hash>>
    /\ UNCHANGED notCallVars

NextCache ==
    \/ CallValidateCacheHash
    \/ CallSanitizeFilename
    \/ CallGenerateSecureCacheKey

SpecCache == InitCache /\ [][NextCache]_vars

TypeOK ==
    /\ pc \in {"ready", "awaiting", "returned", "thrown"}
    /\ op \in {"none", "validateCacheHash", "sanitizeFilename",
               "generateSecureCacheKey", "sanitizeSource",
               "validateDimensions", "optimize", "generateLQIP",
               "optimizeBatch", "OptimizedBackgroundImage",
               "AstroImageAdapter.optimize", "optimizeImages",
               "encodeLQIPInteger", "decodeLQIPInteger"}

(***************************************************************************)
(* Calls of the CDN adapter.                                               *)
(***************************************************************************)
\* longest source stem enumerated exhaustively over SourceAlphabet
MaxStemLen == 3
\* dimensions lie within DimSlack of a limit
DimSlack == 1

\* a . / \
SourceAlphabet == {97, 46, 47, 92}

SourceStems == StringsUpTo(SourceAlphabet, MaxStemLen)

\* an allowed extension, a refused one, none
StemEndings == {<<46, 106, 112, 103>>, <<46, 101, 120, 101>>, <<>>}

\* every allowed extension in both cases, and endings that only resemble one
NamedEndings ==
    validExtensions
        \cup {[i \in 1..Len(e) |-> Canonicalize(e[i])] : e \in validExtensions}
        \cup {<<106, 112, 103>>, <<46, 106, 112, 103, 46, 101, 120, 101>>, <<46, 106, 112, 103, 0, 46, 101, 120, 101>>,
              <<46, 112, 104, 112, 46, 106, 112, 103>>, <<46, 106, 112, 103, 32>>, <<46, 98, 109, 112>>}

\* space : " < > & NUL , $ e-acute, U+1F600, a lone leading and a lone
\* trailing surrogate
SpecialUnits ==
    {<<32>>, <<58>>, <<34>>, <<60>>, <<62>>, <<38>>, <<0>>, <<44>>, <<36>>,
     <<233>>, <<55357, 56832>>, <<55357>>, <<56832>>, <<56832, 55357>>}

SourceInputs ==
    {stem \o ending : stem \in SourceStems, ending \in StemEndings}
        \cup {<<105, 109, 97, 103, 101>> \o ending : ending \in NamedEndings}
        \cup {<<97>> \o special \o <<46, 106, 112, 103>> : special \in SpecialUnits}
        \cup {<<47, 101, 116, 99, 47, 112, 97, 115, 115, 119, 100>>, <<46, 46, 47, 46, 46, 47, 46, 46, 47, 101, 116, 99, 47, 112, 97, 115, 115, 119, 100>>}

CoreSources == {<<105, 109, 97, 103, 101, 46, 106, 112, 103>>, <<105, 109, 97, 103, 101, 46, 103, 105, 102>>, <<46, 46, 47, 105, 109, 97, 103, 101, 46, 106, 112, 103>>}

Around(limit) == (limit - DimSlack)..(limit + DimSlack)

\* 8192 * 6400 = MAX_PIXELS
DimensionInputs ==
    {undefined}
        \cup {<<n>> : n \in {0, 1, 5000, 8192, 15000, 40000}
                        \cup Around(6400) \cup Around(MAX_WIDTH)}

CoreDimensions == {<<undefined, undefined>>, <<<<800>>, <<600>>>>}

\* image.jpg, image.gif, image.svg
AstroSources == {<<105, 109, 97, 103, 101, 46, 106, 112, 103>>, <<105, 109, 97, 103, 101, 46, 103, 105, 102>>, <<105, 109, 97, 103, 101, 46, 115, 118, 103>>}

\* a CDN adapter of some provider, or the Astro adapter
AdapterInputs ==
    (CDNProviders \X SourceInputs \X CoreDimensions)
        \cup ({"cloudflare", "imgix"} \X CoreSources
                \X (DimensionInputs \X DimensionInputs))
        \cup ({"astro"} \X AstroSources
                \X (DimensionInputs \X DimensionInputs))

InitAdapter ==
    /\ \E input \in AdapterInputs :
        /\ provider = input[1]
        /\ source = input[2]
        /\ width = input[3][1]
        /\ height = input[3][2]
    /\ IdleCache
    /\ IdleCall
    /\ IdleCalls
    /\ IdleBatch
    /\ IdleBackground
    /\ IdlePreload
    /\ IdleImages
    /\ IdleLazy
    /\ IdleColors

\* the call completes: its value is returned or its error is thrown
Complete(name, outcome) ==
    /\ op' = name
    /\ IF outcome.completion = "return"
       THEN /\ pc' = "returned"
            /\ ret' = outcome.value
            /\ err' = NoError
       ELSE /\ pc' = "thrown"
            /\ ret' = NoValue
            /\ err' = outcome.value

CallSanitizeSource ==
    /\ pc = "ready"
    /\ provider \in CDNProviders
    /\ Complete("sanitizeSource", sanitizeSource(source))
    /\ UNCHANGED adapterVars
    /\ UNCHANGED notAdapterVars

CallValidateDimensions ==
    /\ pc = "ready"
    /\ provider \in CDNProviders
    /\ Complete("validateDimensions", validateDimensions(width, height))
    /\ UNCHANGED adapterVars
    /\ UNCHANGED notAdapterVars

CallOptimize ==
    /\ pc = "ready"
    /\ provider \in CDNProviders
    /\ Complete("optimize",
                CDNImageAdapter_optimize(provider, source, width, height))
    /\ UNCHANGED adapterVars
    /\ UNCHANGED notAdapterVars

CallGenerateLQIP ==
    /\ pc = "ready"
    /\ provider \in CDNProviders
    /\ Complete("generateLQIP",
                CDNImageAdapter_generateLQIP(provider, source, width, height))
    /\ UNCHANGED adapterVars
    /\ UNCHANGED notAdapterVars

CallAstroOptimize ==
    /\ pc = "ready"
    /\ provider = "astro"
    /\ \E getImageOutcome \in getImageOutcomes(width, height) :
          Complete("AstroImageAdapter.optimize",
                   AstroImageAdapter_optimize(source, width, height,
                                              getImageOutcome))
    /\ UNCHANGED adapterVars
    /\ UNCHANGED notAdapterVars

NextAdapter ==
    \/ CallSanitizeSource
    \/ CallValidateDimensions
    \/ CallOptimize
    \/ CallGenerateLQIP
    \/ CallAstroOptimize

SpecAdapter == InitAdapter /\ [][NextAdapter]_vars

(***************************************************************************)
(* base-adapter.ts: optimizeBatch.  The optimize of the subclass is any    *)
(* asynchronous function: each of its promises settles at some time, in    *)
(* any order, either way.                                                  *)
(***************************************************************************)
\* longest sources array of a batch
MaxBatch == 2

\* '', 'a.jpg', 'b.jpg'
BatchSourceInputs == {<<>>, <<97, 46, 106, 112, 103>>, <<98, 46, 106, 112, 103>>}

\* an Error, and a rejection with a value that has no message
BatchReasons == {Error("Optimization failed"), [name |-> "string"]}

InitBatch ==
    /\ batchSources \in StringsUpTo(BatchSourceInputs, MaxBatch)
    /\ promises = <<>>
    /\ IdleCache
    /\ IdleCall
    /\ IdleCalls
    /\ IdleAdapter
    /\ IdleBackground
    /\ IdlePreload
    /\ IdleImages
    /\ IdleLazy
    /\ IdleColors

\* sources.map(source => this.optimize(source, options)), up to the await
CallOptimizeBatch ==
    /\ pc = "ready"
    /\ op' = "optimizeBatch"
    /\ pc' = "awaiting"
    /\ promises' = [i \in 1..Len(batchSources) |-> [status |-> "pending"]]
    /\ UNCHANGED <<ret, err, batchSources>>
    /\ UNCHANGED notBatchVars

\* one optimize promise is fulfilled or rejected
SettleOptimize ==
    /\ pc = "awaiting"
    /\ \E i \in 1..Len(promises) :
        /\ promises[i].status = "pending"
        /\ \E settled \in
                {[status |-> "fulfilled",
                  value |-> [src |-> batchSources[i], width |-> 0,
                             height |-> 0, format |-> "webp"]]}
                \cup {[status |-> "rejected", reason |-> r] :
                        r \in BatchReasons} :
              promises' = [promises EXCEPT ![i] = settled]
    /\ UNCHANGED <<pc, op, ret, err, batchSources>>
    /\ UNCHANGED notBatchVars

\* results.forEach(...): an entry with a falsy input is skipped
optimizeBatchResult(inputs, results) ==
    LET indices == [i \in 1..Len(results) |-> i]
        succeeded ==
            SelectSeq(indices, LAMBDA i :
                inputs[i] # <<>> /\ results[i].status = "fulfilled")
        rejected ==
            SelectSeq(indices, LAMBDA i :
                inputs[i] # <<>> /\ results[i].status # "fulfilled")
        \* result.reason?.message || 'Unknown error'
        message(reason) ==
            IF "message" \in DOMAIN reason
            THEN IF reason.message # "" THEN reason.message
                 ELSE "Unknown error"
            ELSE "Unknown error"
    IN  [successful |->
            [k \in 1..Len(succeeded) |->
                [input |-> inputs[succeeded[k]],
                 output |-> results[succeeded[k]].value]],
         failed |->
            [k \in 1..Len(rejected) |->
                [input |-> inputs[rejected[k]],
                 error |-> message(results[rejected[k]].reason)]]]

\* Promise.allSettled has resolved: the rest of optimizeBatch runs
ResumeOptimizeBatch ==
    /\ pc = "awaiting"
    /\ \A i \in 1..Len(promises) : promises[i].status # "pending"
    /\ Complete("optimizeBatch",
                Return(optimizeBatchResult(batchSources, promises)))
    /\ UNCHANGED batchVars
    /\ UNCHANGED notBatchVars

NextBatch ==
    \/ CallOptimizeBatch
    \/ SettleOptimize
    \/ ResumeOptimizeBatch

SpecBatch == InitBatch /\ [][NextBatch]_vars

(***************************************************************************)
(* astro-adapter.ts: optimizeImages                                        *)
(***************************************************************************)
\* most entries of one images object
MaxImages == 2

\* two ordinary property names and the one name that Object.prototype
\* defines as an accessor
ImageKeys == {"hero", "logo", "__proto__"}

\* Object.entries(images): own string keys in insertion order, no key twice
ImageEntryInputs ==
    {list \in StringsUpTo(ImageKeys \X AstroSources, MaxImages) :
        \A i, j \in 1..Len(list) : list[i][1] = list[j][1] => i = j}

\* const optimized = {}: its own properties and its prototype
EmptyObject == [own |-> <<>>, prototype |-> "Object.prototype"]

\* optimized[key] = value: an ordinary key becomes an own property; the key
\* '__proto__' reaches the setter inherited from Object.prototype, which
\* makes an object value the prototype and adds no property
SetProperty(object, key, value) ==
    IF key = "__proto__"
    THEN [object EXCEPT !.prototype = value]
    ELSE [object EXCEPT
            !.own = [k \in DOMAIN object.own \cup {key} |->
                        IF k = key THEN value ELSE object.own[k]]]

\* the for loop over the settled results: the object built from the
\* fulfilled ones
RECURSIVE optimizedAfter(_, _)
optimizedAfter(results, n) ==
    IF n = 0 THEN EmptyObject
    ELSE IF results[n].status = "fulfilled"
    THEN SetProperty(optimizedAfter(results, n - 1),
                     results[n].value.key, results[n].value.result)
    ELSE optimizedAfter(results, n - 1)

\* the rest of optimizeImages once Promise.allSettled has resolved
optimizeImagesResult(results) ==
    LET rejected == SelectSeq(results, LAMBDA r : r.status = "rejected")
        \* result.reason?.message || 'Unknown error'
        message(reason) ==
            IF "message" \in DOMAIN reason /\ reason.message # <<>>
            THEN reason.message
            ELSE <<"Unknown error">>
        errorMessages == [k \in 1..Len(rejected) |-> message(rejected[k].reason)]
    IN  IF Len(errorMessages) > 0
        THEN Throw(Error(<<"Failed to optimize images: ">>
                            \o Join(errorMessages, <<", ">>)))
        ELSE Return(optimizedAfter(results, Len(results)))

InitImages ==
    /\ imageEntries \in ImageEntryInputs
    /\ imagePromises = <<>>
    /\ IdleCache
    /\ IdleCall
    /\ IdleCalls
    /\ IdleAdapter
    /\ IdleBatch
    /\ IdleBackground
    /\ IdlePreload
    /\ IdleLazy
    /\ IdleColors

\* entries.map(async ([key, source]) => ...), up to the await
CallOptimizeImages ==
    /\ pc = "ready"
    /\ op' = "optimizeImages"
    /\ pc' = "awaiting"
    /\ imagePromises' = [i \in 1..Len(imageEntries) |-> [status |-> "pending"]]
    /\ UNCHANGED <<ret, err, imageEntries>>
    /\ UNCHANGED notImagesVars

\* adapter.optimize(source) of one entry settles, and with it the promise
\* of { key, result }
SettleImage ==
    /\ pc = "awaiting"
    /\ \E i \in 1..Len(imagePromises) :
        /\ imagePromises[i].status = "pending"
        /\ \E getImageOutcome \in getImageOutcomes(undefined, undefined) :
            LET outcome ==
                    AstroImageAdapter_optimize(imageEntries[i][2], undefined,
                                               undefined, getImageOutcome)
                settled ==
                    IF outcome.completion = "return"
                    THEN [status |-> "fulfilled",
                          value |-> [key |-> imageEntries[i][1],
                                     result |-> outcome.value]]
                    ELSE [status |-> "rejected", reason |-> outcome.value]
            IN  imagePromises' = [imagePromises EXCEPT ![i] = settled]
    /\ UNCHANGED <<pc, op, ret, err, imageEntries>>
    /\ UNCHANGED notImagesVars

\* Promise.allSettled has resolved: the rest of optimizeImages runs
ResumeOptimizeImages ==
    /\ pc = "awaiting"
    /\ \A i \in 1..Len(imagePromises) : imagePromises[i].status # "pending"
    /\ Complete("optimizeImages", optimizeImagesResult(imagePromises))
    /\ UNCHANGED imagesVars
    /\ UNCHANGED notImagesVars

NextImages ==
    \/ CallOptimizeImages
    \/ SettleImage
    \/ ResumeOptimizeImages

SpecImages == InitImages /\ [][NextImages]_vars

(***************************************************************************)
(* OptimizedImage.tsx: validateImageURL and OptimizedBackgroundImage       *)
(***************************************************************************)
\* a RegExp /^prefix/i
StartsWithIgnoreCase(s, prefix) ==
    /\ Len(prefix) <= Len(s)
    /\ MatchesIgnoreCase(SubSeq(s, 1, Len(prefix)), prefix)

\* every URL that does not start with a known scheme is let through
validateImageURL_NoAllowList(url) ==
    IF StartsWithIgnoreCase(url, <<106, 97, 118, 97, 115, 99, 114, 105, 112, 116, 58>>)
    THEN Throw(Error("Invalid image URL: javascript: protocol not allowed"))
    ELSE IF /\ StartsWithIgnoreCase(url, <<100, 97, 116, 97, 58>>)
            /\ ~ StartsWithIgnoreCase(url, <<100, 97, 116, 97, 58, 105, 109, 97, 103, 101, 47>>)
    THEN Throw(Error("Invalid image URL: only data:image/* allowed"))
    ELSE Return(url)

validateImageURL(url) ==
    IF StartsWithIgnoreCase(url, <<106, 97, 118, 97, 115, 99, 114, 105, 112, 116, 58>>)
    THEN Throw(Error("Invalid image URL: javascript: protocol not allowed"))
    \* /^data:(?!image\/)/i
    ELSE IF /\ StartsWithIgnoreCase(url, <<100, 97, 116, 97, 58>>)
            /\ ~ StartsWithIgnoreCase(url, <<100, 97, 116, 97, 58, 105, 109, 97, 103, 101, 47>>)
    THEN Throw(Error("Invalid image URL: only data:image/* allowed"))
    ELSE IF ~ (\/ StartsWithIgnoreCase(url, <<100, 97, 116, 97, 58, 105, 109, 97, 103, 101, 47>>)
               \/ StartsWithIgnoreCase(url, <<104, 116, 116, 112, 115, 58, 47, 47>>)
               \/ StartsWithIgnoreCase(url, <<104, 116, 116, 112, 58, 47, 47>>)
               \/ StartsWith(url, <<47>>))
    THEN Throw(Error("Invalid image URL: must be data:image/*, https://, http://, or relative path"))
    ELSE Return(url)

\* one render with no style prop: the combined style, or the error thrown
\* by the validation.  The filter, transition and willChange entries that
\* lazy.style adds do not touch backgroundImage and are left out.
OptimizedBackgroundImage(shownSrc) ==
    LET safeImageSrc == validateImageURL(shownSrc)
    IN  IF safeImageSrc.completion = "throw" THEN safeImageSrc
        ELSE Return([backgroundImage |->
                        <<117, 114, 108, 40>> \o safeImageSrc.value \o <<41>>,
                     backgroundSize |-> "cover",
                     backgroundPosition |-> "center"])

UrlPrefixes ==
    {<<100, 97, 116, 97, 58, 105, 109, 97, 103, 101, 47>>, <<100, 97, 116, 97, 58, 116, 101, 120, 116, 47>>, <<100, 97, 116, 97, 58>>,
     <<104, 116, 116, 112, 58, 47, 47>>, <<104, 116, 116, 112, 115, 58, 47, 47>>, <<106, 97, 118, 97, 115, 99, 114, 105, 112, 116, 58>>,
     <<102, 116, 112, 58, 47, 47>>, <<104, 116, 116, 112, 120, 58, 47, 47>>}

\* each prefix in lower case, in upper case and capitalised, then
\* '/', '//', '', 'img/', ' javascript:', 'http:/'
UrlInputs ==
    {p \o <<120>> : p \in UrlPrefixes}
        \cup {[i \in 1..Len(p) |-> Canonicalize(p[i])] \o <<120>> :
                p \in UrlPrefixes}
        \cup {<<Canonicalize(p[1])>> \o Tail(p) \o <<120>> :
                p \in UrlPrefixes}
        \cup {q \o <<120>> :
                q \in {<<47>>, <<47, 47>>, <<>>, <<105, 109, 103, 47>>,
                       <<32, 106, 97, 118, 97, 115, 99, 114, 105, 112, 116, 58>>, <<104, 116, 116, 112, 58, 47>>}}

\* useState(placeholder || src) of useLazyImage
InitBackground ==
    /\ imageSrc \in UrlInputs
    /\ lqip \in {undefined} \cup {<<u>> : u \in UrlInputs}
    /\ lazySrc = IF lqip # undefined THEN lqip[1] ELSE imageSrc
    /\ IdlePreload
    /\ IdleImages
    /\ IdleLazy
    /\ IdleColors
    /\ IdleCache
    /\ IdleCall
    /\ IdleCalls
    /\ IdleAdapter
    /\ IdleBatch

RenderBackground ==
    /\ Complete("OptimizedBackgroundImage", OptimizedBackgroundImage(lazySrc))
    /\ UNCHANGED backgroundVars
    /\ UNCHANGED notBackgroundVars

\* img.onload of useLazyImage: setCurrentSrc(src); the component has to
\* render again
LazyImageLoaded ==
    /\ lqip # undefined
    /\ lazySrc # imageSrc
    /\ lazySrc' = imageSrc
    /\ pc' = "ready"
    /\ op' = "none"
    /\ ret' = NoValue
    /\ err' = NoError
    /\ UNCHANGED <<imageSrc, lqip>>
    /\ UNCHANGED notBackgroundVars

NextBackground ==
    \/ RenderBackground
    \/ LazyImageLoaded

SpecBackground == InitBackground /\ [][NextBackground]_vars

(***************************************************************************)
(* useLazyImage.ts: useImagePreload.  A render is followed by its effect;  *)
(* the load and error events of the Image objects arrive at any time.      *)
(***************************************************************************)
\* renders of the hook, each with a sources array of its own
MaxRenders == 2

\* [], ['/a'], ['/a', '/b'], ['/c']
PreloadArrays ==
    {<<>>, <<<<47, 97>>>>, <<<<47, 97>>, <<47, 98>>>>,
     <<<<47, 99>>>>}

\* the effect: sources.map(src => new Image() ...) with img.src = src
preloadEffect(list) ==
    [i \in 1..Len(list) |->
        [src |-> list[i], current |-> TRUE, state |-> "loading"]]

\* the first render and its effect
InitPreload ==
    /\ preloadSources \in PreloadArrays
    /\ loadedCount = 0
    /\ errors = <<>>
    /\ images = preloadEffect(preloadSources)
    /\ renders = 1
    /\ IdleCache
    /\ IdleCall
    /\ IdleCalls
    /\ IdleAdapter
    /\ IdleBatch
    /\ IdleBackground
    /\ IdleImages
    /\ IdleLazy
    /\ IdleColors

\* a render with another sources array: the cleanup of the previous effect
\* sets img.src = '' on its images and leaves their handlers attached, then
\* the effect runs again; loadedCount and errors keep their values.  An
\* image of an earlier render whose event has fired is forgotten.
RerenderPreload ==
    /\ renders < MaxRenders
    /\ renders' = renders + 1
    /\ \E list \in PreloadArrays :
        /\ preloadSources' = list
        /\ images' =
              LET pending ==
                    SelectSeq(images, LAMBDA img : img.state = "loading")
              IN  [i \in 1..Len(pending) |->
                        [pending[i] EXCEPT !.current = FALSE]]
                      \o preloadEffect(list)
    /\ UNCHANGED <<loadedCount, errors>>
    /\ UNCHANGED notPreloadVars

\* img.onload of an image whose src has not been cleared
ImageLoadEvent ==
    /\ \E i \in 1..Len(images) :
        /\ images[i].current
        /\ images[i].state = "loading"
        /\ images' = [images EXCEPT ![i].state = "loaded"]
    /\ loadedCount' = loadedCount + 1
    /\ UNCHANGED <<preloadSources, errors, renders>>
    /\ UNCHANGED notPreloadVars

\* img.onerror: of an image that fails to load, or of an image whose src the
\* cleanup has set to '', for which a browser may fire an error event
ImageErrorEvent ==
    /\ \E i \in 1..Len(images) :
        /\ images[i].state = "loading"
        /\ images' = [images EXCEPT ![i].state = "failed"]
        /\ errors' = Append(errors,
              [src |-> images[i].src,
               error |-> Error(<<"Failed to preload: ", images[i].src>>)])
    /\ loadedCount' = loadedCount + 1
    /\ UNCHANGED <<preloadSources, renders>>
    /\ UNCHANGED notPreloadVars

\* the values the hook returns in the current render
isPreloaded == loadedCount = Len(preloadSources)

\* loadedCount / sources.length as a pair (numerator, denominator)
progress ==
    IF Len(preloadSources) > 0 THEN <<loadedCount, Len(preloadSources)>>
    ELSE <<1, 1>>

NextPreload ==
    \/ RerenderPreload
    \/ ImageLoadEvent
    \/ ImageErrorEvent

SpecPreload == InitPreload /\ [][NextPreload]_vars

(***************************************************************************)
(* useLazyImage.ts: useLazyImage                                           *)
(***************************************************************************)
\* most Image objects one hook creates in a run
MaxLoads == 2

\* '/a.jpg', '/b.jpg'
LazySources == {<<47, 97, 46, 106, 112, 103>>, <<47, 98, 46, 106, 112, 103>>}

\* no placeholder, '/p.jpg'
LazyPlaceholders == {undefined, <<47, 112, 46, 106, 112, 103>>}

\* the default rootMargin and another one
RootMargins == {"50px", "100px"}

\* the arguments of one render that the effect depends on: src through
\* loadImage, placeholder and rootMargin directly (threshold behaves as
\* rootMargin does)
LazyProps ==
    [src : LazySources, placeholder : LazyPlaceholders,
     rootMargin : RootMargins]

\* loadImage() for the src of the render p: the Image object it creates,
\* with the request that img.src = src starts
loadImage(p) == [src |-> p.src, state |-> "loading", cleaned |-> FALSE]

\* the cleanup of the effect: cleanup?.() sets img.src = '' on the Image of
\* the load this effect started.  The handlers stay attached.  Setting src
\* to the empty string aborts the request, so a load or error event of it
\* no longer arrives, and has the element queue an error event of its own.
effectCleanup(list) ==
    [i \in 1..Len(list) |->
        IF list[i].cleaned THEN list[i]
        ELSE [list[i] EXCEPT !.cleaned = TRUE, !.state = "emptied"]]

\* new Error(`Failed to load image: ${src}`)
loadFailure(imageSource) == Error(<<"Failed to load image: ", imageSource>>)

\* the first render and its effect: with no placeholder the load starts at
\* once, with one the observer observes the element
InitLazy ==
    /\ props \in LazyProps
    /\ mounted = TRUE
    /\ isLoaded = FALSE
    /\ errorState = NoError
    /\ currentSrc = (IF props.placeholder # undefined
                     THEN props.placeholder ELSE props.src)
    /\ IF props.placeholder = undefined
       THEN /\ isLoading = TRUE
            /\ observing = FALSE
            /\ loads = <<loadImage(props)>>
            /\ callbackLog = <<[callback |-> "onLoadStart", load |-> 1]>>
       ELSE /\ isLoading = FALSE
            /\ observing = TRUE
            /\ loads = <<>>
            /\ callbackLog = <<>>
    /\ IdleCache
    /\ IdleCall
    /\ IdleCalls
    /\ IdleAdapter
    /\ IdleBatch
    /\ IdleBackground
    /\ IdlePreload
    /\ IdleImages
    /\ IdleColors

\* a render with other arguments: a dependency of the effect has changed,
\* so its cleanup runs and then the effect again.  isLoaded and currentSrc
\* keep their values.
RerenderLazy ==
    /\ mounted
    /\ \E next \in LazyProps :
        /\ next # props
        /\ props' = next
        /\ IF next.placeholder = undefined
           THEN /\ Len(loads) < MaxLoads
                /\ loads' = Append(effectCleanup(loads), loadImage(next))
                /\ observing' = FALSE
                /\ isLoading' = TRUE
                /\ errorState' = NoError
                /\ callbackLog' =
                        Append(callbackLog, [callback |-> "onLoadStart",
                                             load |-> Len(loads) + 1])
           ELSE /\ loads' = effectCleanup(loads)
                /\ observing' = TRUE
                /\ UNCHANGED <<isLoading, errorState, callbackLog>>
    /\ UNCHANGED <<mounted, isLoaded, currentSrc>>
    /\ UNCHANGED notLazyVars

\* the observer reports the element as intersecting: loadImage() and
\* observer.disconnect()
Intersect ==
    /\ mounted
    /\ observing
    /\ Len(loads) < MaxLoads
    /\ loads' = Append(loads, loadImage(props))
    /\ observing' = FALSE
    /\ isLoading' = TRUE
    /\ errorState' = NoError
    /\ callbackLog' =
            Append(callbackLog, [callback |-> "onLoadStart",
                                 load |-> Len(loads) + 1])
    /\ UNCHANGED <<props, mounted, isLoaded, currentSrc>>
    /\ UNCHANGED notLazyVars

\* img.onload of a request under way
LazyLoadEvent ==
    /\ \E i \in 1..Len(loads) :
        /\ loads[i].state = "loading"
        /\ loads' = [loads EXCEPT ![i].state = "loaded"]
        /\ currentSrc' = loads[i].src
        /\ callbackLog' =
                Append(callbackLog, [callback |-> "onLoadComplete", load |-> i])
    /\ isLoaded' = TRUE
    /\ isLoading' = FALSE
    /\ UNCHANGED <<props, mounted, errorState, observing>>
    /\ UNCHANGED notLazyVars

\* img.onerror of a request under way
LazyErrorEvent ==
    /\ \E i \in 1..Len(loads) :
        /\ loads[i].state = "loading"
        /\ loads' = [loads EXCEPT ![i].state = "failed"]
        /\ errorState' = loadFailure(loads[i].src)
        /\ callbackLog' =
                Append(callbackLog, [callback |-> "onError", load |-> i])
    /\ isLoading' = FALSE
    /\ UNCHANGED <<props, mounted, isLoaded, currentSrc, observing>>
    /\ UNCHANGED notLazyVars

\* img.onerror of an Image whose src the cleanup has emptied.  The state
\* setters of an unmounted component change nothing; the callback is still
\* called.
EmptiedErrorEvent ==
    /\ \E i \in 1..Len(loads) :
        /\ loads[i].state = "emptied"
        /\ loads' = [loads EXCEPT ![i].state = "failed"]
        /\ errorState' = (IF mounted THEN loadFailure(loads[i].src)
                          ELSE errorState)
        /\ callbackLog' =
                Append(callbackLog, [callback |-> "onError", load |-> i])
    /\ isLoading' = (IF mounted THEN FALSE ELSE isLoading)
    /\ UNCHANGED <<props, mounted, isLoaded, currentSrc, observing>>
    /\ UNCHANGED notLazyVars

\* the component unmounts: the cleanup of the effect runs
UnmountLazy ==
    /\ mounted
    /\ mounted' = FALSE
    /\ observing' = FALSE
    /\ loads' = effectCleanup(loads)
    /\ UNCHANGED <<props, hookVars, callbackLog>>
    /\ UNCHANGED notLazyVars

NextLazy ==
    \/ RerenderLazy
    \/ Intersect
    \/ LazyLoadEvent
    \/ LazyErrorEvent
    \/ EmptiedErrorEvent
    \/ UnmountLazy

SpecLazy == InitLazy /\ [][NextLazy]_vars

(***************************************************************************)
(* Calls of the LQIP integer functions.                                    *)
(***************************************************************************)
\* the ends and the middle of a byte, and the nearest values outside it
ChannelInputs == {-1, 0, 1, 127, 128, 254, 255, 256}

InitColors ==
    /\ \E r \in ChannelInputs, g \in ChannelInputs, b \in ChannelInputs :
        colors = [r |-> r, g |-> g, b |-> b]
    /\ IdleCache
    /\ IdleCall
    /\ IdleCalls
    /\ IdleAdapter
    /\ IdleBatch
    /\ IdleBackground
    /\ IdlePreload
    /\ IdleImages
    /\ IdleLazy

CallEncodeLQIPInteger ==
    /\ pc = "ready"
    /\ Complete("encodeLQIPInteger", Return(encodeLQIPInteger(colors)))
    /\ UNCHANGED colorVars
    /\ UNCHANGED notColorVars

\* the integer that encodeLQIPInteger returned is decoded
CallDecodeLQIPInteger ==
    /\ pc = "returned"
    /\ op = "encodeLQIPInteger"
    /\ Complete("decodeLQIPInteger", Return(decodeLQIPInteger(ret)))
    /\ UNCHANGED colorVars
    /\ UNCHANGED notColorVars

NextColors ==
    \/ CallEncodeLQIPInteger
    \/ CallDecodeLQIPInteger

SpecColors == InitColors /\ [][NextColors]_vars

(***************************************************************************)
(* A storage layer that derives the keys of several images.               *)
(***************************************************************************)
\* at most MaxCalls keys are derived in one run
MaxCalls == 2

\* a/a  a_a  a\a  a a  a.a  a..a  .a.a  a-a  -a-a  a  ...  ---
KeyFilenames ==
    {<<97, 47, 97>>, <<97, 95, 97>>, <<97, 92, 97>>, <<97, 32, 97>>,
     <<97, 46, 97>>, <<97, 46, 46, 97>>, <<46, 97, 46, 97>>,
     <<97, 45, 97>>, <<45, 97, 45, 97>>, <<97>>,
     <<46, 46, 46>>, <<45, 45, 45>>}

\* two accepted hashes that differ in letter case only, a rejected one
KeyHashes ==
    {Repeat(97, HASH_HEX_LENGTH), Repeat(65, HASH_HEX_LENGTH),
     Repeat(97, SHORT_HASH_LENGTH)}

InitKeys ==
    /\ IdleCache
    /\ IdleCall
    /\ IdleCalls
    /\ IdleAdapter
    /\ IdleBatch
    /\ IdleBackground
    /\ IdlePreload
    /\ IdleImages
    /\ IdleLazy
    /\ IdleColors

\* the storage layer derives the key of one more image
DeriveKey ==
    /\ Cardinality(calls) < MaxCalls
    /\ \E f \in KeyFilenames, h \in KeyHashes :
          LET outcome == generateSecureCacheKey(f, h)
          IN  calls' = calls \cup
                  {[filename |-> f, hash |-> h,
                    completion |-> outcome.completion,
                    value |-> outcome.value]}
    /\ UNCHANGED notKeysVars

NextKeys == DeriveKey

SpecKeys == InitKeys /\ [][NextKeys]_vars

(***************************************************************************)
(* Properties of the cache-key functions.                                  *)
(***************************************************************************)
Called(name) == op = name /\ pc \in {"returned", "thrown"}

\* the string contains the code unit c
Contains(s, c) == \E i \in 1..Len(s) : s[i] = c

\* the string contains the substring '..'
ContainsDotDot(s) == \E i \in 1..(Len(s) - 1) : s[i] = 46 /\ s[i + 1] = 46

\* C1: generateSecureCacheKey returns a key exactly when validateCacheHash
\* accepts the hash and sanitizeFilename(filename) is non-empty; in every
\* other case it throws an ImageConfigError and produces no key.
C1_KeyIffBothInputsUsable ==
    Called("generateSecureCacheKey") =>
        /\ (pc = "returned") <=>
              (validateCacheHash(hash) /\ sanitizeFilename(filename) # <<>>)
        /\ pc = "returned" => err = NoError /\ ret # NoValue
        /\ pc = "thrown" =>
              /\ err.name = "ImageConfigError"
              /\ err.code = "CONFIG_ERROR"
              /\ ret = NoValue

\* a non-empty filename that sanitizes to nothing is refused under a valid hash
C1_Witness ==
    /\ Called("generateSecureCacheKey")
    /\ pc = "thrown"
    /\ validateCacheHash(hash)
    /\ Len(filename) > 0

\* C2: validateCacheHash(h) is true exactly when h has 64 code units, each
\* one of 0-9, a-f, A-F; it is false for every other string and never throws.
C2_HashIsSixtyFourHexDigits ==
    Called("validateCacheHash") =>
        /\ pc = "returned"
        /\ ret = (/\ Len(hash) = 64
                  /\ \A i \in 1..Len(hash) :
                        \/ hash[i] \in 48..57
                        \/ hash[i] \in 97..102
                        \/ hash[i] \in 65..70)

\* a hash mixing upper and lower case digits is accepted
C2_Witness ==
    /\ Called("validateCacheHash")
    /\ ret = TRUE
    /\ \E i \in 1..Len(hash) : hash[i] \in 65..70
    /\ \E i \in 1..Len(hash) : hash[i] \in 97..102

\* C3: sanitizeFilename(f) contains no '..', no '/' and no '\'.
C3_NoTraversalSurvives ==
    Called("sanitizeFilename") =>
        /\ ~ ContainsDotDot(ret)
        /\ ~ Contains(ret, 47)
        /\ ~ Contains(ret, 92)

\* a name with '..' and a separator sanitizes to a non-empty name
C3_Witness ==
    /\ Called("sanitizeFilename")
    /\ ContainsDotDot(filename)
    /\ Contains(filename, 47) \/ Contains(filename, 92)
    /\ ret # <<>>

\* every maximal run of code units outside [A-Za-z0-9.-] replaced by one '_'
ReplaceInvalidRuns(s) ==
    LET Kept(p) ==
            ~ (InvalidClassMatches(p[1]) /\ p[2] # -1 /\ InvalidClassMatches(p[2]))
        kept == Firsts(SelectSeq(WithPrevious(s), Kept))
    IN  [i \in 1..Len(kept) |->
            IF InvalidClassMatches(kept[i]) THEN 95 ELSE kept[i]]

\* C4: sanitizeFilename replaces every maximal run of code units outside
\* [A-Za-z0-9.-] by exactly one '_', not one '_' per code unit; the later
\* steps (dot collapsing, stripping) are those of the code.  Stated for
\* names the length limit does not touch.
C4_InvalidRunBecomesOneUnderscore ==
    (Called("sanitizeFilename") /\ Len(filename) <= MAX_FILENAME_LENGTH) =>
        ret = StripDotDash(CollapseDots(ReplaceInvalidRuns(filename)))

\* d is the index of the '.' of a final '.ext' with a non-empty alphanumeric
\* ext
IsExtensionDot(s, d) ==
    /\ s[d] = 46
    /\ \A i \in (d + 1)..Len(s) :
          s[i] \in (97..122) \cup (65..90) \cup (48..57)

\* the string ends in '.ext'
HasExtension(s) == \E d \in 1..(Len(s) - 1) : IsExtensionDot(s, d)

Extension(s) ==
    SubSeq(s, CHOOSE d \in 1..(Len(s) - 1) : IsExtensionDot(s, d), Len(s))

EndsWith(s, suffix) ==
    /\ Len(suffix) <= Len(s)
    /\ SubSeq(s, Len(s) - Len(suffix) + 1, Len(s)) = suffix

\* C5: when the intermediate result (after replacing and dot collapsing) is
\* longer than 255 code units and ends in '.ext', the output has at most 255
\* code units and still ends in that '.ext'.
C5_TruncationKeepsExtension ==
    Called("sanitizeFilename") =>
        LET intermediate == CollapseDots(ReplaceInvalid(filename))
        IN  (Len(intermediate) > MAX_FILENAME_LENGTH /\ HasExtension(intermediate)) =>
                /\ Len(ret) <= MAX_FILENAME_LENGTH
                /\ EndsWith(ret, Extension(intermediate))

\* only ASCII letters, digits, '.', '-' and '_', and no '.' or '-' at
\* either end
IsSafeFilenameShape(s) ==
    /\ \A i \in 1..Len(s) :
          \/ s[i] \in 97..122
          \/ s[i] \in 65..90
          \/ s[i] \in 48..57
          \/ s[i] \in {45, 46, 95}
    /\ s # <<>> => s[1] \notin {45, 46} /\ s[Len(s)] \notin {45, 46}

\* C6: every code unit of sanitizeFilename(f) is an ASCII letter, a digit,
\* '.', '-' or '_', and the result neither starts nor ends with '.' or '-',
\* also when the 255-unit truncation has cut the string.
C6_SafeCharactersAndEnds ==
    Called("sanitizeFilename") => IsSafeFilenameShape(ret)

\* the truncation cut the string right after a '.' or a '-'
C6_Witness ==
    /\ Called("sanitizeFilename")
    /\ LET cut == CollapseDots(ReplaceInvalid(filename))
       IN  /\ Len(cut) > MAX_FILENAME_LENGTH
           /\ cut[MAX_FILENAME_LENGTH] \in {45, 46}
    /\ ret # <<>>

\* C7: sanitizeFilename(f) has at most 255 code units, whatever the length
\* of f.
C7_LengthBound ==
    Called("sanitizeFilename") => Len(ret) <= 255

\* a longer name is cut down to exactly 255 code units
C7_Witness ==
    /\ Called("sanitizeFilename")
    /\ Len(filename) > 255
    /\ Len(ret) = 255

\* C8: a returned key is sanitizeFilename(filename), then '-', then the hash
\* argument verbatim, letter case included.
C8_KeyIsSafeNameDashHash ==
    (Called("generateSecureCacheKey") /\ pc = "returned") =>
        /\ Len(ret) = Len(sanitizeFilename(filename)) + 1 + Len(hash)
        /\ SubSeq(ret, 1, Len(ret) - Len(hash) - 1) = sanitizeFilename(filename)
        /\ ret[Len(ret) - Len(hash)] = 45
        /\ SubSeq(ret, Len(ret) - Len(hash) + 1, Len(ret)) = hash

\* a key for a rewritten filename and a hash with upper case digits
C8_Witness ==
    /\ Called("generateSecureCacheKey")
    /\ pc = "returned"
    /\ \E i \in 1..Len(hash) : hash[i] \in 65..70
    /\ sanitizeFilename(filename) # filename

\* C9: a hash rejected by validateCacheHash makes generateSecureCacheKey
\* throw an ImageConfigError with context {hash, hashLength, expectedLength:
\* 64}, also when the filename sanitizes to the empty string.
C9_HashCheckedFirst ==
    (Called("generateSecureCacheKey") /\ ~ validateCacheHash(hash)) =>
        /\ pc = "thrown"
        /\ err.name = "ImageConfigError"
        /\ DOMAIN err.context = {"hash", "hashLength", "expectedLength"}
        /\ err.context.hash = hash
        /\ err.context.hashLength = Len(hash)
        /\ err.context.expectedLength = 64

\* both inputs are unusable
C9_Witness ==
    /\ Called("generateSecureCacheKey")
    /\ pc = "thrown"
    /\ ~ validateCacheHash(hash)
    /\ sanitizeFilename(filename) = <<>>
    /\ Len(hash) > 0

\* C10: under an accepted hash, a filename that sanitizes to the empty string
\* makes generateSecureCacheKey throw an ImageConfigError whose context is
\* {originalFilename: filename}, the raw filename.
C10_EmptyNameReportsRawFilename ==
    (/\ Called("generateSecureCacheKey")
     /\ validateCacheHash(hash)
     /\ sanitizeFilename(filename) = <<>>) =>
        /\ pc = "thrown"
        /\ err.name = "ImageConfigError"
        /\ DOMAIN err.context = {"originalFilename"}
        /\ err.context.originalFilename = filename

\* '...' or '---' under an accepted hash
C10_Witness ==
    /\ Called("generateSecureCacheKey")
    /\ pc = "thrown"
    /\ validateCacheHash(hash)
    /\ filename \in {<<46, 46, 46>>, <<45, 45, 45>>}
    /\ err.context.originalFilename = filename

\* C11: filenames that sanitize to the same safe name collide: under the
\* same accepted hash, two calls whose filenames have the same sanitized form
\* complete the same way, and when they return they return the same key.
C11_SameSafeNameSameKey ==
    \A a \in calls : \A b \in calls :
        (/\ validateCacheHash(a.hash)
         /\ a.hash = b.hash
         /\ sanitizeFilename(a.filename) = sanitizeFilename(b.filename)) =>
            /\ a.completion = b.completion
            /\ a.completion = "return" => a.value = b.value

\* 'a/a' and 'a_a' were both given a key under one hash
C11_Witness ==
    \E a \in calls : \E b \in calls :
        /\ a.filename = <<97, 47, 97>>
        /\ b.filename = <<97, 95, 97>>
        /\ a.hash = b.hash
        /\ a.completion = "return"
        /\ b.completion = "return"
        /\ a.value = b.value

\* C27: the key is injective in the pair (sanitized filename, hash): two
\* calls that return the same key were given the same hash and filenames
\* with the same sanitized form.
C27_SameKeySameSafeNameAndHash ==
    \A a \in calls : \A b \in calls :
        (/\ a.completion = "return"
         /\ b.completion = "return"
         /\ a.value = b.value) =>
            /\ a.hash = b.hash
            /\ sanitizeFilename(a.filename) = sanitizeFilename(b.filename)

\* 'a-a' and 'a a', safe names with and without a dash of their own, were
\* given different keys under one hash, and 'a\a' the key of 'a a'
C27_Witness ==
    \E a \in calls : \E b \in calls :
        /\ a.filename = <<97, 45, 97>>
        /\ b.filename \in {<<97, 32, 97>>, <<97, 92, 97>>}
        /\ a.hash = b.hash
        /\ a.completion = "return"
        /\ b.completion = "return"
        /\ a.value # b.value


(***************************************************************************)
(* Properties of the CDN source guard and of the dimension guard.          *)
(***************************************************************************)
\* the reason tag of an error, "absent" when it has no context or no tag
Reason(e) ==
    IF "context" \in DOMAIN e
    THEN IF "reason" \in DOMAIN e.context THEN e.context.reason
         ELSE "absent"
    ELSE "absent"

HasTraversal(s) == Includes(s, <<46, 46, 47>>) \/ Includes(s, <<46, 46, 92>>)

IsAbsolute(s) == StartsWith(s, <<47>>)

\* the first rule the source violates, in the order of the checks
FirstViolation(s) ==
    IF HasTraversal(s) THEN "directory_traversal"
    ELSE IF IsAbsolute(s) THEN "absolute_path"
    ELSE IF ~ validExtensionsTest(s) THEN "invalid_extension"
    ELSE "none"

\* C12: every rejection by sanitizeSource is an ImageSecurityError whose
\* context holds the offending source and a reason tag out of
\* directory_traversal, absolute_path and invalid_extension, each tag given
\* only to a source that violates its rule.
C12_RejectionIsTaggedSecurityError ==
    (Called("sanitizeSource") /\ pc = "thrown") =>
        /\ err.name = "ImageSecurityError"
        /\ "context" \in DOMAIN err
        /\ "source" \in DOMAIN err.context
        /\ err.context.source = source
        /\ Reason(err) \in {"directory_traversal", "absolute_path",
                            "invalid_extension"}
        /\ Reason(err) = "directory_traversal" => HasTraversal(source)
        /\ Reason(err) = "absolute_path" => IsAbsolute(source)
        /\ Reason(err) = "invalid_extension" => ~ validExtensionsTest(source)

\* space : " < > & / NUL
ForbiddenInComponent == {32, 58, 34, 60, 62, 38, 47, 0}

\* C13: sanitizeSource accepts a source exactly when it has no '../' and no
\* '..\', does not start with '/' and ends, in any letter case, in an allowed
\* extension; an accepted source is returned percent-encoded as one URI
\* component, without a literal space : " < > & / or NUL.
C13_AcceptsIffSafeAndEncodes ==
    Called("sanitizeSource") =>
        /\ pc = "returned" <=>
              (/\ ~ HasTraversal(source)
               /\ ~ IsAbsolute(source)
               /\ validExtensionsTest(source))
        /\ pc = "returned" =>
              /\ encodeURIComponent(source) = Return(ret)
              /\ \A i \in 1..Len(ret) : ret[i] \notin ForbiddenInComponent

\* C14: sanitizeSource checks the raw string in the order traversal,
\* absolute path, extension: a rejected source carries the reason of the
\* first rule it violates, and a source is encoded only when it violates none.
C14_FirstViolationIsReported ==
    Called("sanitizeSource") =>
        /\ (pc = "thrown" /\ FirstViolation(source) # "none") =>
              Reason(err) = FirstViolation(source)
        /\ pc = "returned" => FirstViolation(source) = "none"

\* the part of a URL before its query string
PathOf(url) ==
    LET q == IndexOf(url, <<63>>)
    IN  IF q = 0 THEN url ELSE SubSeq(url, 1, q - 1)

\* the part of a path after its last '/'
LastSegment(path) ==
    LET slashes == {i \in 1..Len(path) : path[i] = 47}
        last == CHOOSE i \in slashes : \A j \in slashes : j <= i
    IN  IF slashes = {} THEN path ELSE SubSeq(path, last + 1, Len(path))

\* the URL a completed optimize or generateLQIP call returned
ReturnedUrl == IF op = "optimize" THEN ret.src ELSE ret

\* C15: for every provider, optimize and generateLQIP pass the source through
\* sanitizeSource before building the URL: a source that sanitizeSource
\* refuses makes the call reject without a URL, and a returned URL starts
\* with the base URL and has the percent-encoded source, and nothing else of
\* the source, as the last segment of its path.
C15_UrlEmbedsOnlyEncodedSource ==
    (Called("optimize") \/ Called("generateLQIP")) =>
        /\ sanitizeSource(source).completion = "throw" =>
              /\ pc = "thrown"
              /\ ret = NoValue
        /\ pc = "returned" =>
              /\ StartsWith(ReturnedUrl, baseUrl)
              /\ Return(LastSegment(PathOf(ReturnedUrl)))
                    = encodeURIComponent(source)

\* 'a .jpg' came back from cloudinary's optimize as 'a%20.jpg'
C15_Witness ==
    /\ Called("optimize")
    /\ provider = "cloudinary"
    /\ source = <<97, 32, 46, 106, 112, 103>>
    /\ pc = "returned"
    /\ LastSegment(PathOf(ret.src)) = <<97, 37, 50, 48, 46, 106, 112, 103>>

\* C16: validateDimensions returns exactly when width <= MAX_WIDTH, height <=
\* MAX_HEIGHT and width * height <= MAX_PIXELS, a check on an undefined
\* dimension being skipped; otherwise it throws an ImageValidationError
\* whose reason is the first violated bound in the order width, height,
\* pixels, with the offending value and the limit in its context.
C16_DimensionGuard ==
    Called("validateDimensions") =>
        LET widthOk == width = undefined \/ width[1] <= MAX_WIDTH
            heightOk == height = undefined \/ height[1] <= MAX_HEIGHT
            pixelsOk == \/ width = undefined
                        \/ height = undefined
                        \/ width[1] * height[1] <= MAX_PIXELS
        IN  /\ pc = "returned" <=> (widthOk /\ heightOk /\ pixelsOk)
            /\ pc = "thrown" => err.name = "ImageValidationError"
            /\ ~ widthOk =>
                  /\ Reason(err) = "width_exceeded"
                  /\ err.context.width = width[1]
                  /\ err.context.maxWidth = MAX_WIDTH
            /\ (widthOk /\ ~ heightOk) =>
                  /\ Reason(err) = "height_exceeded"
                  /\ err.context.height = height[1]
                  /\ err.context.maxHeight = MAX_HEIGHT
            /\ (widthOk /\ heightOk /\ ~ pixelsOk) =>
                  /\ Reason(err) = "pixels_exceeded"
                  /\ err.context.pixels = width[1] * height[1]
                  /\ err.context.maxPixels = MAX_PIXELS

\* (10000, 15000) was refused for its height
C16_Witness ==
    /\ Called("validateDimensions")
    /\ width = <<10000>>
    /\ height = <<15000>>
    /\ pc = "thrown"
    /\ Reason(err) = "height_exceeded"

C18_BatchPartitionsItsSources ==
    /\ ~ (op = "optimizeBatch" /\ pc = "thrown")
    /\ (op = "optimizeBatch" /\ pc = "returned") =>
          LET indices == [i \in 1..Len(batchSources) |-> i]
              succeeded == SelectSeq(indices,
                              LAMBDA i : promises[i].status = "fulfilled")
              rejected == SelectSeq(indices,
                              LAMBDA i : promises[i].status = "rejected")
          IN  /\ Len(ret.successful) + Len(ret.failed) = Len(batchSources)
              /\ Len(ret.successful) = Len(succeeded)
              /\ Len(ret.failed) = Len(rejected)
              /\ \A k \in 1..Len(succeeded) :
                    /\ ret.successful[k].input = batchSources[succeeded[k]]
                    /\ ret.successful[k].output = promises[succeeded[k]].value
              /\ \A k \in 1..Len(rejected) :
                    /\ ret.failed[k].input = batchSources[rejected[k]]
                    /\ "message" \in DOMAIN promises[rejected[k]].reason =>
                          ret.failed[k].error
                              = promises[rejected[k]].reason.message

\* the URL starts, letter for letter, with data:image/, http://, https:// or /
StartsAsWritten(url) ==
    \/ StartsWith(url, <<100, 97, 116, 97, 58, 105, 109, 97, 103, 101, 47>>)
    \/ StartsWith(url, <<104, 116, 116, 112, 58, 47, 47>>)
    \/ StartsWith(url, <<104, 116, 116, 112, 115, 58, 47, 47>>)
    \/ StartsWith(url, <<47>>)

\* the URL starts with data:image/, http:// or https:// in any letter case,
\* or with /
StartsInAnyCase(url) ==
    \/ StartsWithIgnoreCase(url, <<100, 97, 116, 97, 58, 105, 109, 97, 103, 101, 47>>)
    \/ StartsWithIgnoreCase(url, <<104, 116, 116, 112, 58, 47, 47>>)
    \/ StartsWithIgnoreCase(url, <<104, 116, 116, 112, 115, 58, 47, 47>>)
    \/ StartsWith(url, <<47>>)

C20_ProgressWithinUnitInterval ==
    /\ 0 <= progress[1]
    /\ progress[1] <= progress[2]


\* C21: useImagePreload reports isPreloaded only when every image of the
\* current sources array has loaded: never while one of them is still
\* loading or has failed.
C21_PreloadedMeansAllLoaded ==
    isPreloaded =>
        \A i \in 1..Len(images) :
            images[i].current => images[i].state = "loaded"


(***************************************************************************)
(* Properties of the adapters' error paths.                                *)
(***************************************************************************)
\* the width and height that a completed adapter call writes into its URL
UrlDimensions ==
    IF op = "generateLQIP"
    THEN <<<<mergeLQIPConfig(width, height).width>>,
           <<mergeLQIPConfig(width, height).height>>>>
    ELSE <<width, height>>

\* C22: optimize and generateLQIP of the CDN adapter validate the width and
\* height that go into the URL before sanitizeSource runs: a call whose
\* dimensions the guard refuses returns no URL and fails with the
\* ImageValidationError of the guard, also when its source is unsafe.
C22_DimensionsGuardedBeforeSource ==
    (Called("optimize") \/ Called("generateLQIP")) =>
        LET guard == validateDimensions(UrlDimensions[1], UrlDimensions[2])
        IN  guard.completion = "throw" =>
                /\ pc = "thrown"
                /\ err = guard.value


\* C23: a violation found by the dimension guard inside optimize, of the CDN
\* adapter and of the Astro adapter alike, reaches the caller as the
\* ImageValidationError the guard raised, with its reason, offending value
\* and limit, and not as an error of another kind.
C23_GuardErrorReachesCaller ==
    (Called("optimize") \/ Called("AstroImageAdapter.optimize")) =>
        LET guard == validateDimensions(width, height)
        IN  guard.completion = "throw" =>
                /\ pc = "thrown"
                /\ err.name = "ImageValidationError"
                /\ Reason(err) = guard.value.context.reason
                /\ err.context = guard.value.context


\* the message m appears in the message text
Lists(text, m) ==
    \E p \in 1..Len(text) :
        /\ p + Len(m) - 1 <= Len(text)
        /\ SubSeq(text, p, p + Len(m) - 1) = m

\* C24: optimizeImages is all-or-nothing.  It completes only when every
\* entry has settled; it resolves only if every optimize fulfilled, and then
\* the result has exactly the keys of the input, each mapped to the result
\* of its own source; otherwise it rejects with one Error whose message
\* lists the message of every failed entry.
C24_AllOrNothing ==
    Called("optimizeImages") =>
        LET indices == 1..Len(imageEntries)
        IN  /\ Len(imagePromises) = Len(imageEntries)
            /\ \A i \in indices : imagePromises[i].status # "pending"
            /\ pc = "returned" <=>
                    \A i \in indices : imagePromises[i].status = "fulfilled"
            /\ pc = "returned" =>
                /\ DOMAIN ret.own = {imageEntries[i][1] : i \in indices}
                /\ \A i \in indices :
                    /\ imagePromises[i].value.key = imageEntries[i][1]
                    /\ ret.own[imageEntries[i][1]] = imagePromises[i].value.result
            /\ pc = "thrown" =>
                /\ err.name = "Error"
                /\ err.message[1] = "Failed to optimize images: "
                /\ \A i \in indices :
                    imagePromises[i].status = "rejected" =>
                        Lists(err.message, imagePromises[i].reason.message)


\* every channel of the encoded colors is a byte
IsRGB == \A channel \in {"r", "g", "b"} : colors[channel] \in 0..255

\* C25: for r, g, b in 0..255 encodeLQIPInteger returns the integer
\* r*65536 + g*256 + b, which lies in 0..2^24-1, and decodeLQIPInteger of
\* that integer returns exactly r, g, b.
C25_EncodeDecodeRoundTrip ==
    IsRGB =>
        /\ Called("encodeLQIPInteger") =>
            /\ ret = colors.r * 65536 + colors.g * 256 + colors.b
            /\ ret \in 0..(2^24 - 1)
        /\ Called("decodeLQIPInteger") => ret = colors

\* r = 1, g = 128, b = 255 has been encoded and decoded
C25_Witness ==
    /\ Called("decodeLQIPInteger")
    /\ colors = [r |-> 1, g |-> 128, b |-> 255]


\* C26: sanitizeFilename is idempotent: applied to its own result, also the
\* result of a filename longer than 255 characters, it returns that result
\* unchanged.
C26_SanitizeFilenameIdempotent ==
    Called("sanitizeFilename") => sanitizeFilename(ret) = ret

\* a filename longer than the limit was cut and then lost a trailing dot
C26_Witness ==
    /\ Called("sanitizeFilename")
    /\ Len(filename) > MAX_FILENAME_LENGTH
    /\ ret # <<>>
    /\ Len(ret) < MAX_FILENAME_LENGTH
    /\ \E i \in 1..Len(ret) : ret[i] = 46


(***************************************************************************)
(* Properties of useLazyImage.                                             *)
(***************************************************************************)
\* C28: whenever the hook reports isLoaded = true, the src it returns is the
\* src of the current render and isLoading is false, also after re-renders
\* with another src.
C28_LoadedMeansCurrentSrcShown ==
    (mounted /\ isLoaded) =>
        /\ currentSrc = props.src
        /\ ~ isLoading

\* C29: a load whose effect cleanup has run never afterwards changes
\* isLoaded, isLoading, error or the returned src, and never invokes
\* onLoadComplete or onError: a step in which the Image of such a load
\* changes leaves the four states and the invoked callbacks as they were.
C29_AbandonedLoadIsInert ==
    [][\A i \in 1..Len(loads) :
            (loads[i].cleaned /\ loads'[i] # loads[i]) =>
                UNCHANGED <<hookVars, callbackLog>>]_vars

====
